---- MODULE Spec2Model ----
(***************************************************************************)
(* Model of the arbitrage radar: the market simulator (core/simulator.py), *)
(* the data provider and its venue clients (core/data_provider.py), the    *)
(* controller (core/controller.py) and the row sink (models/radar_model).  *)
(*                                                                         *)
(* Numbers.  Prices, volumes and times are integers; a percentage is an    *)
(* exact fraction [n, d] in lowest terms with d > 0, so that               *)
(* ((sell - buy) / buy) * 100 is computed without rounding.                *)
(*                                                                         *)
(* Specifications.                                                         *)
(*   Spec      the running program from the state RadarController's        *)
(*             constructor leaves, assuming the simulator's pair           *)
(*             generation returned (SpecGen is about whether it does).     *)
(*   SpecGen   the sampling loop of MarketSimulator._generate_pairs with   *)
(*             the pool sizes and the count range of the source.           *)
(*   SpecBody  the body of the per-pair loop of RadarController.refresh    *)
(*             (routing, profit, quality flags, label) applied to the two  *)
(*             quotes of one pair drawn from bounded sets.                 *)
(*   SpecPipe  the publication steps of the controller (the tail of        *)
(*             refresh, and set_filters) applied to a drawn list of        *)
(*             ArbRow objects and a drawn status snapshot.                 *)
(*   SpecAlert the log events of a run of ticks (status changes, alerts    *)
(*             and their cooldown), each tick on a drawn list of ArbRow    *)
(*             objects and a drawn status snapshot, with pair refreshes    *)
(*             and mode changes in between.                                *)
(*   SpecStub  the provider in Real mode: connect and disconnect calls on  *)
(*             its two stub clients, provider ticks and the controller's   *)
(*             tick on their snapshot.                                     *)
(*   SpecUI    the main window's handlers for the data-source box, the     *)
(*             debounced filter application, Start and Stop (buttons and   *)
(*             shortcuts), interleaved with the controller's ticks.        *)
(*   SpecSink  calls of RadarModel.update_rows with drawn row lists.       *)
(*   SpecLive  ticks, set_filters and toggle_favorite of a controller      *)
(*             whose ticks obtain quotes and build their rows.             *)
(*   SpecConfig  save_config and load_config on a configuration file that  *)
(*             other programs may delete or overwrite.                     *)
(***************************************************************************)
EXTENDS Integers, Sequences, FiniteSets, TLC

VARIABLES
    \* ---- Spec: the running program
    clock,                    \* time.time()
    op,                     \* the handler that ran last
    sim_pairs,              \* MarketSimulator._pairs
    sim_state,              \* MarketSimulator._state
    sim_last_quotes,        \* MarketSimulator._last_quotes
    sim_exchange_status,    \* MarketSimulator._exchange_status
    prov_mode,              \* DataProvider._mode
    prov_pairs,             \* DataProvider._pairs
    prov_clients,           \* DataProvider._clients
    timer_active,           \* RadarController._timer.isActive()
    timer_interval,         \* RadarController._timer.interval()
    self_filters,                \* RadarController._filters
    self_stale_sec,              \* RadarController._stale_sec
    self_max_profit_suspicious,  \* RadarController._max_profit_suspicious
    pair_log_cooldown,      \* RadarController._pair_log_cooldown
    last_statuses,          \* RadarController._last_statuses
    last_rows,              \* RadarController._last_rows
    last_status_snapshot,   \* RadarController._last_status_snapshot
    last_pair_count,        \* RadarController._last_pair_count
    self_last_update,            \* RadarController._last_update
    model_rows,             \* RadarModel._rows
    model_favorites,        \* RadarModel._favorites
    model_profit_threshold, \* RadarModel._profit_threshold
    model_show_favorites_only, \* RadarModel._show_favorites_only
    out_log,                \* log events emitted by the last handler
    out_updated,            \* update events emitted by the last handler
    out_raised,             \* exception that escaped the last handler
    \* ---- SpecGen: the sampling loop of MarketSimulator._generate_pairs
    g_total,                \* total = randint(220, 380)
    g_len,                  \* len(pairs)
    \* ---- SpecBody: inputs and result of one pass of the per-pair loop
    b_binance,      \* quotes.get("Binance")
    b_poloniex,     \* quotes.get("Poloniex")
    b_statuses,     \* snapshot.statuses
    b_self,         \* the controller attributes the loop body reads
    b_now,          \* now = time.time()
    b_pc,           \* "ready" before the pass, "done" after it
    b_kwargs,       \* keyword arguments evaluated for ArbRow(...)
    b_raised,       \* exception raised by the pass, or NoValue
    \* ---- SpecPipe: the controller's publication steps on a drawn row set
    p_pc,           \* "ready", "ticked" (tick published), "failed" (tick
                    \* raised), "republished" / "escaped" (set_filters)
    p_self,         \* controller attributes: _filters, _stale_sec, ...
    p_statuses,     \* the tick's status snapshot
    p_rows,         \* rows: the unfiltered row list of the tick
    p_last_rows,    \* self._last_rows
    p_last_status_snapshot, \* self._last_status_snapshot
    p_sink,         \* RadarModel._rows
    p_updated,      \* update events emitted by the last step
    p_log,          \* log events emitted by the last step
    \* ---- SpecAlert: the log events of a run of ticks
    a_pc,           \* the last handler
    a_now,          \* time.time()
    a_self,         \* controller attributes: _filters, _stale_sec, ...
    a_mode,         \* DataProvider._mode
    a_pair_log_cooldown,    \* self._pair_log_cooldown
    a_last_statuses,        \* self._last_statuses
    a_rows,         \* rows: the row list the last tick computed
    a_statuses,     \* the status snapshot of the last tick
    a_filtered,     \* filtered: the list the last tick published
    a_log,          \* log events emitted by the last handler
    a_since_clear,  \* history: per pair, time of its last SIGNAL event since
                    \* the last pair refresh or mode change
    a_alerted,      \* history: per pair, time of its last SIGNAL event
    \* ---- SpecStub: the provider in Real mode and its two stub clients
    s_pc,           \* the last call
    s_now,          \* time.time()
    s_clients,      \* DataProvider._clients
    s_self,         \* controller attributes: _filters, _stale_sec, ...
    s_last_update,  \* RadarController._last_update
    s_snapshot,     \* the ProviderSnapshot of the last provider tick
    s_sink,         \* RadarModel._rows
    s_updated,      \* update events emitted by the last call
    \* ---- SpecUI: the main window's start / stop / data-source handlers
    u_pc,           \* the last handler
    u_data_source,  \* MainWindow._data_source.currentText()
    u_filters_timer,    \* MainWindow._filters_timer.isActive()
    u_start_enabled,    \* MainWindow._start_button.isEnabled()
    u_stop_enabled,     \* MainWindow._stop_button.isEnabled()
    u_mode,         \* DataProvider._mode
    u_timer_active, \* RadarController._timer.isActive()
    u_interval,     \* RadarController._timer.interval()
    u_tick_mode,    \* the provider mode the last tick ran in, or NoValue
    u_log,          \* log events emitted by the last handler
    \* ---- SpecSink: RadarModel.update_rows
    k_pc,           \* "init", then "update_rows" after each call
    k_rows,         \* RadarModel._rows
    k_signals,      \* Qt signals emitted by the last call
    k_held,         \* history: _rows before the last call
    k_given,        \* history: the argument of the last call
    \* ---- SpecConfig: save_config and load_config on the configuration file
    c_pc,           \* the last call
    c_file,         \* the file at config_path()
    c_saved,        \* history: the argument of the last save_config
    c_loaded,       \* the AppConfig the last load_config returned
    c_raised,       \* exception that escaped the last call, or NoValue
    \* ---- SpecLive: the handlers on ticks whose rows were built
    v_pc,           \* the last handler
    v_now,          \* time.time()
    v_mode,         \* DataProvider._mode
    v_self,         \* the controller's settings
    v_favorites,    \* RadarModel._favorites
    v_sink,         \* RadarModel._rows
    v_last_rows,    \* RadarController._last_rows
    v_last_status_snapshot,
    v_last_pair_count,
    v_last_statuses,
    v_last_update,
    v_pair_log_cooldown,
    v_log,          \* the log events of the last handler
    v_updated,      \* the update events of the last handler
    v_raised        \* exception that escaped the last handler, or NoValue

NoValue == "None"

Exchanges == {"Binance", "Poloniex"}

StatusLabels == {"Connected", "Degraded", "Disconnected"}

(***************************************************************************)
(* Exact fractions.                                                        *)
(***************************************************************************)
Abs(x) == IF x < 0 THEN -x ELSE x

RECURSIVE GCD(_, _)
GCD(a, b) == IF b = 0 THEN a ELSE GCD(b, a % b)

\* the fraction n/d (d # 0) in lowest terms with a positive denominator
Frac(n, d) ==
    LET g == GCD(Abs(n), Abs(d))
        s == IF d < 0 THEN -1 ELSE 1
    IN  [n |-> (s * n) \div g, d |-> (s * d) \div g]

FracLT(a, b) == a.n * b.d < b.n * a.d

FracLE(a, b) == a.n * b.d <= b.n * a.d

Max(a, b) == IF a > b THEN a ELSE b

Min(a, b) == IF a < b THEN a ELSE b

InSeq(x, s) == \E i \in 1..Len(s) : s[i] = x

(***************************************************************************)
(* core/types.py                                                           *)
(***************************************************************************)
QuoteSnapshot(exchange, pair, bid, ask, volume_24h, timestamp) ==
    [exchange |-> exchange, pair |-> pair, bid |-> bid, ask |-> ask,
     volume_24h |-> volume_24h, timestamp |-> timestamp]

ExchangeStatus(name, status, latency_s, changed_at) ==
    [name |-> name, status |-> status, latency_s |-> latency_s,
     changed_at |-> changed_at]

\* the fields the frozen dataclass ArbRow declares
ArbRowFields ==
    {"pair", "buy_exchange", "buy_price", "sell_exchange", "sell_price",
     "profit_pct", "volume_24h", "updated_secs", "spread", "quality",
     "quality_flags", "binance_bid", "binance_ask", "poloniex_bid",
     "poloniex_ask", "data_source"}

\* ArbRow(**kwargs): the generated __init__ accepts exactly the declared
\* fields; any other keyword is a TypeError
ArbRowAccepts(kwargs) == DOMAIN kwargs = ArbRowFields

(***************************************************************************)
(* Pair identifiers.  A pair string f"{base}{suffix}/{quote}" is kept as   *)
(* its parts: base asset, leveraged suffix ("" when plain), separator and  *)
(* quote asset, plus whether it is written in upper case.                  *)
(***************************************************************************)
Pair(base, suffix, quote) ==
    [base |-> base, suffix |-> suffix, sep |-> "/", quote |-> quote,
     upper |-> TRUE]

\* utils/formatting.py: pair.replace("-", "/").upper()
normalize_pair(pair) == [pair EXCEPT !.sep = "/", !.upper = TRUE]

(***************************************************************************)
(* core/controller.py: quality flags, label, signal predicate              *)
(***************************************************************************)
\* one pass of `for exchange in {buy_exchange, sell_exchange}` of
\* _quality_flags
FlagDisconnected(flags, statuses, exchange) ==
    IF statuses[exchange].status = "Disconnected" /\ ~InSeq("Stale", flags)
    THEN Append(flags, "Stale")
    ELSE flags

quality_flags_off_by_one(self, profit_pct, volume_24h, updated_secs, statuses, buy_exchange, sell_exchange) ==
    LET f1 == IF updated_secs >= self.stale_sec THEN <<"Stale">> ELSE <<>>
        f2 == IF volume_24h <= self.filters.min_volume
              THEN Append(f1, "LowVol") ELSE f1
        f3 == IF FracLE(self.max_profit_suspicious, profit_pct)
              THEN Append(f2, "Suspicious") ELSE f2
        f4 == FlagDisconnected(f3, statuses, buy_exchange)
    IN  FlagDisconnected(f4, statuses, sell_exchange)

quality_flags(self, profit_pct, volume_24h, updated_secs, statuses, buy_exchange, sell_exchange) ==
    LET f1 == IF updated_secs > self.stale_sec THEN <<"Stale">> ELSE <<>>
        f2 == IF volume_24h < self.filters.min_volume
              THEN Append(f1, "LowVol") ELSE f1
        f3 == IF FracLT(self.max_profit_suspicious, profit_pct)
              THEN Append(f2, "Suspicious") ELSE f2
        \* the set {buy_exchange, sell_exchange} has one or two members; the
        \* second pass appends nothing when the first one did
        f4 == FlagDisconnected(f3, statuses, buy_exchange)
    IN  FlagDisconnected(f4, statuses, sell_exchange)

quality_label_stale_first(flags) ==
    IF flags = <<>> THEN "OK"
    ELSE IF InSeq("Stale", flags) THEN "Stale"
    ELSE IF InSeq("Suspicious", flags) THEN "Suspicious"
    ELSE IF InSeq("LowVol", flags) THEN "LowVol"
    ELSE flags[1]

quality_label(flags) ==
    IF flags = <<>> THEN "OK"
    ELSE IF InSeq("Suspicious", flags) THEN "Suspicious"
    ELSE IF InSeq("Stale", flags) THEN "Stale"
    ELSE IF InSeq("LowVol", flags) THEN "LowVol"
    ELSE flags[1]

is_signal_degraded_excluded(self, row, statuses) ==
    IF FracLT(row.profit_pct, self.filters.min_profit) THEN FALSE
    ELSE \A exchange \in {row.buy_exchange, row.sell_exchange} :
            statuses[exchange].status = "Connected"

is_signal_ignores_status(self, row, statuses) ==
    ~FracLT(row.profit_pct, self.filters.min_profit)

is_signal(self, row, statuses) ==
    IF FracLT(row.profit_pct, self.filters.min_profit) THEN FALSE
    ELSE \A exchange \in {row.buy_exchange, row.sell_exchange} :
            statuses[exchange].status # "Disconnected"

(***************************************************************************)
(* core/controller.py: the filter / rank pipeline                          *)
(***************************************************************************)
\* the pair strings of the model in ascending str order
PairOrder ==
    << Pair("ADA", "DOWN", "USD"), Pair("BTC", "", "USDT"),
       Pair("ETH", "UP", "USDT") >>

PairRank(pair) == CHOOSE i \in 1..Len(PairOrder) : PairOrder[i] = pair

\* pair.endswith("/USDT")
EndsWithSlashUSDT(pair) == pair.sep = "/" /\ pair.upper /\ pair.quote = "USDT"

\* base = pair.split("/")[0]; base.endswith("UP") or base.endswith("DOWN")
\* (no base asset of the pool itself ends in UP or DOWN)
is_leveraged(pair) == pair.upper /\ pair.suffix \in {"UP", "DOWN"}

passes_pair_filters(self, row) ==
    IF self.filters.only_usdt /\ ~EndsWithSlashUSDT(row.pair) THEN FALSE
    ELSE IF self.filters.exclude_leveraged /\ is_leveraged(row.pair) THEN FALSE
    ELSE TRUE

\* Optional[int]: None is <<>>, an integer n is <<n>>
None == <<>>

Some(n) == <<n>>

\* `if self._filters.top_n:` - None and 0 are both falsy
Truthy(opt) == opt # None /\ opt[1] # 0

\* lst[:n]
SliceTo(lst, n) ==
    IF n >= 0 THEN SubSeq(lst, 1, Min(n, Len(lst)))
    ELSE SubSeq(lst, 1, Max(Len(lst) + n, 0))

\* list.sort(key=..., reverse=True) is stable: equal keys keep their order
RECURSIVE InsertByProfitDesc(_, _)
InsertByProfitDesc(sorted, row) ==
    IF sorted = <<>> THEN <<row>>
    ELSE IF FracLT(Head(sorted).profit_pct, row.profit_pct)
         THEN <<row>> \o sorted
         ELSE <<Head(sorted)>> \o InsertByProfitDesc(Tail(sorted), row)

RECURSIVE SortByProfitDesc(_)
SortByProfitDesc(rows) ==
    IF rows = <<>> THEN <<>>
    ELSE InsertByProfitDesc(SortByProfitDesc(SubSeq(rows, 1, Len(rows) - 1)),
                            rows[Len(rows)])

RECURSIVE InsertByPair(_, _)
InsertByPair(sorted, row) ==
    IF sorted = <<>> THEN <<row>>
    ELSE IF PairRank(row.pair) < PairRank(Head(sorted).pair)
         THEN <<row>> \o sorted
         ELSE <<Head(sorted)>> \o InsertByPair(Tail(sorted), row)

RECURSIVE SortByPair(_)
SortByPair(rows) ==
    IF rows = <<>> THEN <<>>
    ELSE InsertByPair(SortByPair(SubSeq(rows, 1, Len(rows) - 1)),
                      rows[Len(rows)])

PreFavorites_any_volume(self, rows, statuses) ==
    LET keep(row)   == passes_pair_filters(self, row)
        signal(row) == is_signal(self, row, statuses)
        a           == SelectSeq(rows, keep)
    IN  IF self.filters.show_only_signals THEN SelectSeq(a, signal) ELSE a

\* lines 183-190: volume and pair filters, then the signals-only filter
PreFavorites(self, rows, statuses) ==
    LET keep(row)   == /\ row.volume_24h >= self.filters.min_volume
                       /\ passes_pair_filters(self, row)
        signal(row) == is_signal(self, row, statuses)
        a           == SelectSeq(rows, keep)
    IN  IF self.filters.show_only_signals THEN SelectSeq(a, signal) ELSE a

\* line 192 reads row.favorite of every row still in the list: an
\* AttributeError for an object without that attribute
FavoritesRaises(self, rows, statuses) ==
    /\ self.filters.show_favorites_only
    /\ \E i \in 1..Len(PreFavorites(self, rows, statuses)) :
          "favorite" \notin DOMAIN PreFavorites(self, rows, statuses)[i]

apply_filters_no_resort(self, rows, statuses) ==
    LET fav(row) == row.favorite
        b  == PreFavorites(self, rows, statuses)
        c  == IF self.filters.show_favorites_only THEN SelectSeq(b, fav) ELSE b
        d  == SortByProfitDesc(c)
    IN  IF Truthy(self.filters.top_n)
        THEN SliceTo(d, self.filters.top_n[1]) ELSE d

\* _apply_filters when it returns (see FavoritesRaises)
apply_filters(self, rows, statuses) ==
    LET fav(row) == row.favorite
        b  == PreFavorites(self, rows, statuses)
        c  == IF self.filters.show_favorites_only THEN SelectSeq(b, fav) ELSE b
        d  == SortByProfitDesc(c)
        e  == IF Truthy(self.filters.top_n)
              THEN SliceTo(d, self.filters.top_n[1]) ELSE d
    IN  SortByPair(e)

rows_sorted_in_place(self, rows, statuses) == SortByProfitDesc(rows)

\* the list passed to _apply_filters, after the call: the comprehension of
\* lines 183-188 builds a new list and the sorts work on that one
rows_after_filters(self, rows, statuses) == rows

\* sum(1 for row in filtered if self._is_signal(row, statuses))
signal_count(self, filtered, statuses) ==
    Cardinality({ i \in 1..Len(filtered) : is_signal(self, filtered[i], statuses) })

(***************************************************************************)
(* core/controller.py: the body of the per-pair loop of refresh            *)
(***************************************************************************)
route_buy_not_strict(binance, poloniex) ==
    IF poloniex.ask <= binance.ask
    THEN [exchange |-> "Poloniex", price |-> poloniex.ask]
    ELSE [exchange |-> "Binance", price |-> binance.ask]

route_buy(binance, poloniex) ==
    IF poloniex.ask < binance.ask
    THEN [exchange |-> "Poloniex", price |-> poloniex.ask]
    ELSE [exchange |-> "Binance", price |-> binance.ask]

route_sell_follows_buy(binance, poloniex) ==
    IF binance.bid > poloniex.bid /\ ~(poloniex.ask < binance.ask)
    THEN [exchange |-> "Binance", price |-> binance.bid]
    ELSE [exchange |-> "Poloniex", price |-> poloniex.bid]

route_sell(binance, poloniex) ==
    IF binance.bid > poloniex.bid
    THEN [exchange |-> "Binance", price |-> binance.bid]
    ELSE [exchange |-> "Poloniex", price |-> poloniex.bid]

profit_pct_clamped(sell_price, buy_price) ==
    IF sell_price < buy_price THEN Frac(0, 1)
    ELSE Frac((sell_price - buy_price) * 100, buy_price)

profit_pct_absolute(sell_price, buy_price) ==
    Frac(Abs(sell_price - buy_price) * 100, buy_price)

profit_pct_of(sell_price, buy_price) ==
    Frac((sell_price - buy_price) * 100, buy_price)

\* the keyword arguments refresh evaluates for ArbRow(...) for one pair
row_kwargs(self, pair, binance, poloniex, statuses, now, favorite, mode) ==
    LET buy         == route_buy(binance, poloniex)
        sell        == route_sell(binance, poloniex)
        profit      == profit_pct_of(sell.price, buy.price)
        volume      == Min(binance.volume_24h, poloniex.volume_24h)
        updated_ts  == Max(binance.timestamp, poloniex.timestamp)
        updated_s   == now - updated_ts
        spread      == sell.price - buy.price
        flags       == quality_flags(self, profit, volume, updated_s, statuses,
                                     buy.exchange, sell.exchange)
    IN  [favorite      |-> favorite,
         pair          |-> pair,
         buy_exchange  |-> buy.exchange,
         buy_price     |-> buy.price,
         sell_exchange |-> sell.exchange,
         sell_price    |-> sell.price,
         profit_pct    |-> profit,
         volume_24h    |-> volume,
         updated_secs  |-> updated_s,
         spread        |-> spread,
         quality       |-> quality_label(flags),
         quality_flags |-> flags,
         updated_ts    |-> updated_ts,
         binance_bid   |-> binance.bid,
         binance_ask   |-> binance.ask,
         poloniex_bid  |-> poloniex.bid,
         poloniex_ask  |-> poloniex.ask,
         data_source   |-> mode]

(***************************************************************************)
(* SpecBody: one pass of the loop body on drawn quotes.                    *)
(***************************************************************************)
PriceSet == {99, 100, 102, 105}

BodyPair == Pair("BTC", "", "USDT")

BodySelves ==
    { [filters |-> [min_volume |-> mv], stale_sec |-> 3,
       max_profit_suspicious |-> Frac(5, 1)] : mv \in {0, 100} }

StatusSnapshots ==
    { [e \in Exchanges |->
          ExchangeStatus(e, IF e = "Binance" THEN sb ELSE sp, 0, 0)] :
      sb \in StatusLabels, sp \in StatusLabels }

bodyVars ==
    <<b_binance, b_poloniex, b_statuses, b_self, b_now, b_pc, b_kwargs,
      b_raised>>

BodyInit ==
    /\ b_binance \in
          { QuoteSnapshot("Binance", BodyPair, bid, ask, vol, ts) :
              bid \in PriceSet, ask \in PriceSet, vol \in {50, 200},
              ts \in {1, 3, 6} }
    /\ b_poloniex \in
          { QuoteSnapshot("Poloniex", BodyPair, bid, ask, vol, ts) :
              bid \in PriceSet, ask \in PriceSet, vol \in {100, 200},
              ts \in {1, 3} }
    /\ b_statuses \in StatusSnapshots
    /\ b_self \in BodySelves
    /\ b_now = 6
    /\ b_pc = "ready"
    /\ b_kwargs = <<>>
    /\ b_raised = NoValue

\* controller.py 113-162 for one pair: the arguments are evaluated, then
\* ArbRow(...) is called with them
BodyPass ==
    /\ b_pc = "ready"
    /\ b_pc' = "done"
    /\ b_kwargs' = row_kwargs(b_self, normalize_pair(BodyPair), b_binance,
                              b_poloniex, b_statuses, b_now, FALSE, "Simulator")
    /\ b_raised' = IF ArbRowAccepts(b_kwargs') THEN NoValue ELSE "TypeError"
    /\ UNCHANGED <<b_binance, b_poloniex, b_statuses, b_self, b_now>>

BodyNext == BodyPass


BodyDone == b_pc = "done"

(***************************************************************************)
(* core/controller.py: FilterSettings and the publication steps            *)
(***************************************************************************)
FilterSettings(top_n, min_profit, min_volume, only_usdt, exclude_leveraged, show_only_signals, show_favorites_only, cooldown_seconds, max_profit_suspicious, stale_sec, update_interval_ms, data_source) ==
    [top_n |-> top_n, min_profit |-> min_profit, min_volume |-> min_volume,
     only_usdt |-> only_usdt, exclude_leveraged |-> exclude_leveraged,
     show_only_signals |-> show_only_signals,
     show_favorites_only |-> show_favorites_only,
     cooldown_seconds |-> cooldown_seconds,
     max_profit_suspicious |-> max_profit_suspicious, stale_sec |-> stale_sec,
     update_interval_ms |-> update_interval_ms, data_source |-> data_source]

\* set_filters, lines 83 and 87-88: the attributes a FilterSettings sets
SelfWith(filters) ==
    [filters |-> filters, stale_sec |-> filters.stale_sec,
     max_profit_suspicious |-> filters.max_profit_suspicious]

\* the payload of self.updated.emit(latency, pair_count, signal_count,
\* statuses, health)
UpdatedEvent(latency, pair_count, count, statuses, mode) ==
    [latency |-> latency, pair_count |-> pair_count, signal_count |-> count,
     statuses |-> statuses, provider_mode |-> mode]

LogEvent(level, message) == [level |-> level, message |-> message]

(***************************************************************************)
(* core/simulator.py.  base_price and the quote prices are integers in     *)
(* units of 0.0001; a random draw is a choice from a small set.            *)
(***************************************************************************)
\* rand.random() in thousandths: values that between them take every branch
\* of the chain on the thresholds 0.02, 0.04, 0.12 and 0.18
RollChoices == {0, 150, 500}

\* rand.uniform(-0.6, 0.6) in tenths of a percent
DriftChoices == {-6}

\* rand.uniform(-0.8, 0.8) in tenths of a percent
VolumeDriftChoices == {-8}

\* the sign of rand.uniform(-jitter, jitter), taken at the ends of the band
BiasSigns == {-1, 1}

PriceFloor == 100

VolumeFloor == 500

PairState(base_price, volume_24h, last_update) ==
    [base_price |-> base_price, volume_24h |-> volume_24h,
     last_update |-> last_update]

\* latency in milliseconds: 0.12 s for Binance, 0.18 s for the other venue
BaseLatency(name) == IF name = "Binance" THEN 120 ELSE 180

next_status_drops(status, roll) ==
    IF status = "Connected" /\ roll < 20 THEN "Disconnected"
    ELSE IF status = "Degraded" /\ roll < 180 THEN "Connected"
    ELSE IF status = "Disconnected" /\ roll < 120 THEN "Connected"
    ELSE status

\* lines 141-149: the elif chain on one roll
next_status(status, roll) ==
    IF status = "Connected" /\ roll < 20 THEN "Degraded"
    ELSE IF status = "Degraded" /\ roll < 40 THEN "Disconnected"
    ELSE IF status = "Degraded" /\ roll < 180 THEN "Connected"
    ELSE IF status = "Disconnected" /\ roll < 120 THEN "Connected"
    ELSE status

toggle_status_stamps(name, status, roll, t) ==
    ExchangeStatus(name, next_status(status.status, roll), BaseLatency(name), t)

\* lines 151-170: one pass of the loop of _maybe_toggle_status
toggle_status(name, status, roll, t) ==
    LET nxt     == next_status(status.status, roll)
        latency == IF nxt = "Degraded" THEN (BaseLatency(name) * 5) \div 2
                   ELSE IF nxt = "Disconnected" THEN BaseLatency(name) * 5
                   ELSE BaseLatency(name)
    IN  IF nxt # status.status
        THEN ExchangeStatus(name, nxt, latency, t)
        ELSE ExchangeStatus(name, status.status, latency, status.changed_at)

maybe_toggle_status(statuses, rolls, t) ==
    [name \in Exchanges |-> toggle_status(name, statuses[name], rolls[name], t)]

\* _make_quote: jitter in hundredths of a percent (18 or 35), spread in
\* hundredths of a percent, the volume factor in percent
make_quote(exchange, pair, state, t, jitter, sign, spread, factor) ==
    LET mid == (state.base_price * (10000 + sign * jitter)) \div 10000
        sp  == Max(5, spread)
    IN  QuoteSnapshot(exchange, pair,
                      (mid * (10000 - sp)) \div 10000,
                      (mid * (10000 + sp)) \div 10000,
                      (state.volume_24h * factor) \div 100, t)

drift_state_unfloored(state, drift, vdrift, t) ==
    PairState((state.base_price * (1000 + drift)) \div 1000,
              (state.volume_24h * (1000 + vdrift)) \div 1000, t)

\* lines 45-48: the drift of one pair's state
drift_state(state, drift, vdrift, t) ==
    PairState(Max(PriceFloor, (state.base_price * (1000 + drift)) \div 1000),
              Max(VolumeFloor, (state.volume_24h * (1000 + vdrift)) \div 1000),
              t)

tick_quote_fresh(exchange, pair, state, statuses, lastq, t, sign) ==
    make_quote(exchange, pair, state, t, 18, sign, 5, 100)

\* lines 51-59: the quote of one venue for one pair
tick_quote(exchange, pair, state, statuses, lastq, t, sign) ==
    IF statuses[exchange].status = "Disconnected" THEN lastq[pair][exchange]
    ELSE IF statuses[exchange].status = "Degraded"
         THEN make_quote(exchange, pair, state, t, 35, sign, 5, 100)
         ELSE make_quote(exchange, pair, state, t, 18, sign, 5, 100)

SeqToSet(seq) == { seq[i] : i \in 1..Len(seq) }

\* the attributes an instance of MarketSimulator has
MarketSimulatorAttributes ==
    {"_rand", "_pairs", "_state", "_last_quotes", "_exchange_status", "pairs",
     "statuses", "refresh_pairs", "tick", "_make_quote", "_generate_pairs",
     "_refresh_pairs", "_maybe_toggle_status"}

\* MarketSimulator.tick
SimulatorTick(t) ==
    \E rolls \in [Exchanges -> RollChoices],
       drift \in [SeqToSet(sim_pairs) -> DriftChoices],
       vdrift \in [SeqToSet(sim_pairs) -> VolumeDriftChoices],
       sign \in [SeqToSet(sim_pairs) -> [Exchanges -> BiasSigns]] :
        LET statuses == maybe_toggle_status(sim_exchange_status, rolls, t)
            state    == [pair \in SeqToSet(sim_pairs) |->
                            drift_state(sim_state[pair], drift[pair],
                                        vdrift[pair], t)]
        IN  /\ sim_exchange_status' = statuses
            /\ sim_state' = state
            /\ sim_last_quotes' =
                  [pair \in SeqToSet(sim_pairs) |->
                      [exchange \in Exchanges |->
                          tick_quote(exchange, pair, state[pair], statuses,
                                     sim_last_quotes, t, sign[pair][exchange])]]
            /\ UNCHANGED sim_pairs

\* rand.uniform(0.5, 60000.0) in units of 0.0001
BasePriceChoices == {5000, 20000}

\* the lists _generate_pairs is taken to return
SimUniverses ==
    {<<Pair("BTC", "", "USDT")>>, <<Pair("ETH", "UP", "USDT"), Pair("BTC", "", "USDT")>>}

\* MarketSimulator.refresh_pairs, that is _refresh_pairs
SimulatorRefreshPairs(pairs, t) ==
    \E base \in [SeqToSet(pairs) -> BasePriceChoices],
       sign \in [SeqToSet(pairs) -> [Exchanges -> BiasSigns]] :
        LET state == [pair \in SeqToSet(pairs) |-> PairState(base[pair], 10000, t)]
        IN  /\ sim_pairs' = pairs
            /\ sim_state' = state
            /\ sim_last_quotes' =
                  [pair \in SeqToSet(pairs) |->
                      [exchange \in Exchanges |->
                          make_quote(exchange, pair, state[pair], t, 18,
                                     sign[pair][exchange], 5, 100)]]
            /\ UNCHANGED sim_exchange_status

(***************************************************************************)
(* core/data_provider.py                                                   *)
(***************************************************************************)
SimulatorClient(name) == [kind |-> "SimulatorClient", name |-> name]

RealClientStub(name, t) ==
    [kind |-> "RealClientStub", name |-> name,
     status |-> ExchangeStatus(name, "Disconnected", 0, t)]

client_get_pairs(client, simulator_pairs) ==
    IF client.kind = "SimulatorClient" THEN simulator_pairs ELSE <<>>

client_status(client, simulator_statuses) ==
    IF client.kind = "SimulatorClient" THEN simulator_statuses[client.name]
    ELSE client.status

\* SimulatorClient.get_best_quotes begins with self._simulator.last_quotes():
\* an AttributeError unless the simulator has that attribute
get_best_quotes_raises(client) ==
    /\ client.kind = "SimulatorClient"
    /\ "last_quotes" \notin MarketSimulatorAttributes

\* sorted(...) of a set of pair strings
RECURSIVE SortedPairs(_, _)
SortedPairs(set, i) ==
    IF i > Len(PairOrder) THEN <<>>
    ELSE (IF PairOrder[i] \in set THEN <<PairOrder[i]>> ELSE <<>>)
         \o SortedPairs(set, i + 1)

provider_refresh_pairs_unsorted(mode, clients, simulator_pairs) ==
    IF mode # "Simulator" THEN <<>>
    ELSE client_get_pairs(clients["Binance"], simulator_pairs)

\* DataProvider.refresh_pairs
provider_refresh_pairs(mode, clients, simulator_pairs) ==
    IF mode # "Simulator" THEN <<>>
    ELSE SortedPairs(SeqToSet(client_get_pairs(clients["Binance"], simulator_pairs))
                       \cap SeqToSet(client_get_pairs(clients["Poloniex"],
                                                      simulator_pairs)), 1)

provider_clients(mode, t) ==
    IF mode = "Simulator" THEN [name \in Exchanges |-> SimulatorClient(name)]
    ELSE [name \in Exchanges |-> RealClientStub(name, t)]

\* DataProvider.tick raises when a SimulatorClient is asked for quotes, that
\* is once per pair of self._pairs in Simulator mode
provider_tick_raises(mode, pairs, clients) ==
    /\ mode = "Simulator"
    /\ pairs # <<>>
    /\ get_best_quotes_raises(clients["Binance"])

(***************************************************************************)
(* core/controller.py: the handlers                                        *)
(***************************************************************************)
MaxTime == 3

sysVars ==
    <<clock, op, sim_pairs, sim_state, sim_last_quotes, sim_exchange_status,
      prov_mode, prov_pairs, prov_clients, timer_active, timer_interval,
      self_filters, self_stale_sec, self_max_profit_suspicious, pair_log_cooldown,
      last_statuses, last_rows, last_status_snapshot, last_pair_count,
      self_last_update, model_rows, model_favorites, model_profit_threshold,
      model_show_favorites_only, out_log, out_updated, out_raised>>

simVars == <<sim_pairs, sim_state, sim_last_quotes, sim_exchange_status>>

provVars == <<prov_mode, prov_pairs, prov_clients>>

modelVars ==
    <<model_rows, model_favorites, model_profit_threshold,
      model_show_favorites_only>>

Self == SelfWith(self_filters)

DefaultFilters ==
    FilterSettings(Some(50), Frac(1, 2), 100000, FALSE, FALSE, FALSE, FALSE, 5,
                   Frac(5, 1), 3, 500, "Simulator")

\* the settings of tests/test_smoke.py test_controller_tick_mock
TestFilters ==
    FilterSettings(Some(5), Frac(0, 1), 0, FALSE, FALSE, FALSE, FALSE, 1,
                   Frac(10, 1), 5, 500, "Simulator")

RealFilters ==
    FilterSettings(Some(50), Frac(1, 2), 100000, FALSE, FALSE, FALSE, FALSE, 5,
                   Frac(5, 1), 3, 500, "Real")

SysFilters == {DefaultFilters, TestFilters, RealFilters}

\* the pair universe of the simulator, in insertion order
SimUniverse == << Pair("ETH", "UP", "USDT"), Pair("BTC", "", "USDT") >>

EmptyDict == [x \in {} |-> 0]

\* the state RadarController.__init__ leaves
SysInit ==
    /\ clock = 0
    /\ op = "init"
    /\ sim_pairs = SimUniverse
    /\ sim_state = [pair \in SeqToSet(SimUniverse) |-> PairState(5000, 10000, 0)]
    /\ \E sign \in [SeqToSet(SimUniverse) -> [Exchanges -> BiasSigns]] :
          sim_last_quotes =
              [pair \in SeqToSet(SimUniverse) |->
                  [exchange \in Exchanges |->
                      make_quote(exchange, pair, sim_state[pair], 0, 18,
                                 sign[pair][exchange], 5, 100)]]
    /\ sim_exchange_status =
          [name \in Exchanges |->
              ExchangeStatus(name, "Connected", BaseLatency(name), 0)]
    /\ prov_mode = "Simulator"
    /\ prov_clients = provider_clients("Simulator", 0)
    /\ prov_pairs = provider_refresh_pairs("Simulator", prov_clients, SimUniverse)
    /\ timer_active = FALSE
    /\ timer_interval = 500
    /\ self_filters = DefaultFilters
    /\ self_stale_sec = 3
    /\ self_max_profit_suspicious = Frac(5, 1)
    /\ pair_log_cooldown = EmptyDict
    /\ last_statuses = [name \in Exchanges |-> NoValue]
    /\ last_rows = <<>>
    /\ last_status_snapshot = EmptyDict
    /\ last_pair_count = 0
    /\ self_last_update = 0
    /\ model_rows = <<>>
    /\ model_favorites = {}
    /\ model_profit_threshold = Frac(1, 2)
    /\ model_show_favorites_only = FALSE
    /\ out_log = <<>>
    /\ out_updated = <<>>
    /\ out_raised = NoValue

start_log_always(active) == <<LogEvent("INFO", <<"START scanning">>)>>

\* what start logs, given self._timer.isActive()
start_log(active) ==
    IF ~active THEN <<LogEvent("INFO", <<"START scanning">>)>> ELSE <<>>

\* what stop logs, given self._timer.isActive()
stop_log(active) ==
    IF active THEN <<LogEvent("INFO", <<"STOP scanning">>)>> ELSE <<>>

timer_kept(active) == active

\* self._timer.stop()
timer_after_stop(active) == FALSE

Start ==
    /\ op' = "start"
    /\ timer_active' = TRUE
    /\ out_log' = start_log(timer_active)
    /\ out_updated' = <<>>
    /\ out_raised' = NoValue
    /\ UNCHANGED <<clock, simVars, provVars, timer_interval, self_filters, self_stale_sec,
                   self_max_profit_suspicious, pair_log_cooldown, last_statuses,
                   last_rows, last_status_snapshot, last_pair_count,
                   self_last_update, modelVars>>

Stop ==
    /\ op' = "stop"
    /\ timer_active' = timer_after_stop(timer_active)
    /\ out_log' = stop_log(timer_active)
    /\ out_updated' = <<>>
    /\ out_raised' = NoValue
    /\ UNCHANGED <<clock, simVars, provVars, timer_interval, self_filters, self_stale_sec,
                   self_max_profit_suspicious, pair_log_cooldown, last_statuses,
                   last_rows, last_status_snapshot, last_pair_count,
                   self_last_update, modelVars>>

RefreshPairs ==
    /\ op' = "refresh_pairs"
    /\ prov_pairs' = IF prov_mode = "Simulator"
                     THEN provider_refresh_pairs(prov_mode, prov_clients, sim_pairs)
                     ELSE prov_pairs
    /\ pair_log_cooldown' = EmptyDict
    /\ out_log' = <<LogEvent("INFO", <<"Refresh pairs">>)>>
    /\ out_updated' = <<>>
    /\ out_raised' = NoValue
    /\ UNCHANGED <<clock, simVars, prov_mode, prov_clients, timer_active,
                   timer_interval, self_filters, self_stale_sec, self_max_profit_suspicious,
                   last_statuses, last_rows, last_status_snapshot,
                   last_pair_count, self_last_update, modelVars>>

\* set_filters, with _set_provider_mode and DataProvider.set_mode
SetFilters(f) ==
    LET switch == prov_mode # f.data_source
        self   == SelfWith(f)
        raises == last_rows # <<>>
                    /\ FavoritesRaises(self, last_rows, last_status_snapshot)
    IN  /\ op' = "set_filters"
        /\ self_filters' = f
        /\ model_profit_threshold' = f.min_profit
        /\ model_show_favorites_only' = f.show_favorites_only
        /\ IF switch
           THEN /\ prov_mode' = f.data_source
                /\ prov_clients' = provider_clients(f.data_source, clock)
                /\ prov_pairs' = provider_refresh_pairs(f.data_source,
                                                        prov_clients', sim_pairs)
                /\ pair_log_cooldown' = EmptyDict
                /\ out_log' = <<LogEvent("INFO", <<"Provider mode", f.data_source>>)>>
           ELSE /\ UNCHANGED <<provVars, pair_log_cooldown>>
                /\ out_log' = <<>>
        /\ self_stale_sec' = f.stale_sec
        /\ self_max_profit_suspicious' = f.max_profit_suspicious
        /\ timer_interval' = f.update_interval_ms
        /\ IF last_rows = <<>> \/ raises
           THEN /\ UNCHANGED model_rows
                /\ out_updated' = <<>>
           ELSE LET filtered == apply_filters(self, last_rows, last_status_snapshot)
                IN  /\ model_rows' = filtered
                    /\ out_updated' =
                          <<UpdatedEvent(0, last_pair_count,
                                signal_count(self, filtered, last_status_snapshot),
                                last_status_snapshot, prov_mode')>>
        /\ out_raised' = IF raises THEN "AttributeError" ELSE NoValue
        /\ UNCHANGED <<clock, simVars, timer_active, last_statuses, last_rows,
                       last_status_snapshot, last_pair_count, self_last_update,
                       model_favorites>>

RECURSIVE status_events_from_first(_, _, _)
status_events_from_first(names, last, statuses) ==
    IF names = <<>> THEN <<>>
    ELSE (IF last[Head(names)] # statuses[Head(names)].status
          THEN <<LogEvent("INFO", <<"status", Head(names),
                                    statuses[Head(names)].status>>)>>
          ELSE <<>>)
         \o status_events_from_first(Tail(names), last, statuses)

\* _log_status_changes: the events, in the order of statuses.items()
RECURSIVE StatusChangeEvents(_, _, _)
StatusChangeEvents(names, last, statuses) ==
    IF names = <<>> THEN <<>>
    ELSE (IF last[Head(names)] # NoValue
             /\ last[Head(names)] # statuses[Head(names)].status
          THEN <<LogEvent("INFO", <<"status", Head(names),
                                    statuses[Head(names)].status>>)>>
          ELSE <<>>)
         \o StatusChangeEvents(Tail(names), last, statuses)

tick_failed_silent(exc) == <<>>

\* except Exception as exc: what the handler logs
tick_failed_log(exc) ==
    <<LogEvent("ERROR", <<"Controller tick failed", exc>>)>>

\* the timer fires: refresh (time has passed since the last handler)
Tick ==
    /\ timer_active
    /\ clock < MaxTime
    /\ clock' = clock + 1
    /\ op' = "refresh"
    /\ out_raised' = NoValue
    /\ IF prov_mode = "Simulator" THEN SimulatorTick(clock') ELSE UNCHANGED simVars
    /\ IF provider_tick_raises(prov_mode, prov_pairs, prov_clients)
       THEN \* except Exception: the tick is abandoned
            /\ out_log' = tick_failed_log("AttributeError")
            /\ out_updated' = <<>>
            /\ UNCHANGED <<last_statuses, last_rows, last_status_snapshot,
                           last_pair_count, self_last_update, model_rows>>
       ELSE \* provider.tick returned: snapshot.quotes has no pair, so the
            \* loop body does not run and rows is the empty list
            LET statuses == [name \in Exchanges |->
                                client_status(prov_clients[name],
                                              sim_exchange_status')]
                rows     == <<>>
                filtered == apply_filters(Self, rows, statuses)
            IN  /\ last_statuses' = [name \in Exchanges |-> statuses[name].status]
                /\ model_rows' = filtered
                /\ last_rows' = rows
                /\ last_status_snapshot' = statuses
                /\ last_pair_count' =
                      IF prov_mode = "Simulator" THEN Len(prov_pairs) ELSE 0
                /\ self_last_update' = clock'
                /\ out_updated' =
                      <<UpdatedEvent(clock' - self_last_update, last_pair_count',
                                     signal_count(Self, filtered, statuses),
                                     statuses, prov_mode)>>
                /\ out_log' = StatusChangeEvents(<<"Binance", "Poloniex">>,
                                                 last_statuses, statuses)
    /\ UNCHANGED <<provVars, timer_active, timer_interval, self_filters, self_stale_sec,
                   self_max_profit_suspicious, pair_log_cooldown, model_favorites,
                   model_profit_threshold, model_show_favorites_only>>

\* time passes with no handler running
Advance ==
    /\ clock < MaxTime
    /\ clock' = clock + 1
    /\ UNCHANGED <<op, simVars, provVars, timer_active, timer_interval,
                   self_filters, self_stale_sec, self_max_profit_suspicious,
                   pair_log_cooldown, last_statuses, last_rows,
                   last_status_snapshot, last_pair_count, self_last_update,
                   modelVars, out_log, out_updated, out_raised>>

(***************************************************************************)
(* core/simulator.py: the sampling loop of _generate_pairs.  pairs holds   *)
(* no pair twice, so with the combinations taken in the order they are     *)
(* first sampled it is described by its length.                            *)
(***************************************************************************)
Bases ==
    {"BTC", "ETH", "SOL", "XRP", "ADA", "DOT", "AVAX", "MATIC", "LTC", "LINK",
     "ATOM", "NEAR", "APT", "SUI"}

Quotes == {"USDT", "USD", "BTC", "ETH"}

Leveraged == {"UP", "DOWN"}

TotalMin == 220

TotalMax == 380

\* every pair string one pass of the loop can build
Combinations ==
    { c \in Bases \X ({""} \cup Leveraged) \X Quotes : c[1] # c[3] }

genVars == <<g_total, g_len>>

GenInit ==
    /\ g_total \in TotalMin..TotalMax
    /\ g_len = 0

\* one pass with base == quote: continue
GenRejected ==
    /\ g_len < g_total
    /\ \E base \in Bases, quote \in Quotes : base = quote
    /\ UNCHANGED genVars

\* one pass that builds a pair already in pairs
GenDuplicate ==
    /\ g_len < g_total
    /\ g_len > 0
    /\ UNCHANGED genVars

\* one pass that builds a pair not yet in pairs: it is appended
GenNew ==
    /\ g_len < g_total
    /\ g_len < Cardinality(Combinations)
    /\ g_len' = g_len + 1
    /\ UNCHANGED g_total

\* the loop `while len(pairs) < total` has exited
GenReturned == g_len >= g_total

(***************************************************************************)
(* SpecPipe: publication on a drawn row list.                              *)
(***************************************************************************)
PipeNow == 6

PipeFavorites == {Pair("BTC", "", "USDT")}

\* the two quotes of one pair: Binance (bid, ask, volume, timestamp), then
\* Poloniex
PipeQuoteCases ==
    { <<105, 100, 200, 6, 102,  99, 200, 6>>,
      <<199, 200,  50, 6, 201, 202, 200, 6>>,
      << 99, 100, 200, 1,  99, 100, 200, 1>>,
      <<101, 100, 200, 6,  99, 102, 200, 6>> }

PipeFilters ==
    { FilterSettings(tn, Frac(1, 2), mv, usdt, lev, sig, fav, 5, Frac(5, 1), 3,
                     500, "Simulator") :
        tn \in {None, Some(0), Some(1), Some(2)}, mv \in {0, 100},
        usdt \in BOOLEAN, lev \in BOOLEAN, sig \in BOOLEAN, fav \in BOOLEAN }

\* the settings a later set_filters call may bring
PipeNewFilters ==
    { FilterSettings(None, Frac(0, 1), 0, FALSE, FALSE, FALSE, FALSE, 1,
                     Frac(10, 1), 5, 500, "Simulator"),
      FilterSettings(Some(1), Frac(1, 1), 100, TRUE, FALSE, TRUE, FALSE, 5,
                     Frac(5, 1), 3, 500, "Simulator"),
      FilterSettings(Some(2), Frac(1, 2), 0, FALSE, TRUE, FALSE, TRUE, 5,
                     Frac(5, 1), 3, 500, "Simulator") }

\* an ArbRow object carrying, for each declared field, the value the loop
\* body computes for it from the two quotes
PipeRow(self, pair, q, statuses) ==
    LET kw == row_kwargs(self, normalize_pair(pair),
                  QuoteSnapshot("Binance", pair, q[1], q[2], q[3], q[4]),
                  QuoteSnapshot("Poloniex", pair, q[5], q[6], q[7], q[8]),
                  statuses, PipeNow, pair \in PipeFavorites, "Simulator")
    IN  [f \in ArbRowFields |-> kw[f]]

\* one row per chosen pair, in the order of the snapshot's quotes
RECURSIVE PipeRowList(_, _, _, _)
PipeRowList(self, choice, statuses, i) ==
    IF i > Len(PairOrder) THEN <<>>
    ELSE (IF choice[i] = <<>> THEN <<>>
          ELSE <<PipeRow(self, PairOrder[i], choice[i], statuses)>>)
         \o PipeRowList(self, choice, statuses, i + 1)

pipeVars ==
    <<p_pc, p_self, p_statuses, p_rows, p_last_rows, p_last_status_snapshot,
      p_sink, p_updated, p_log>>

PipeInit ==
    /\ p_pc = "ready"
    /\ p_statuses \in StatusSnapshots
    /\ \E f \in PipeFilters : p_self = SelfWith(f)
    /\ \E choice \in [1..Len(PairOrder) -> PipeQuoteCases \cup {<<>>}] :
          p_rows = PipeRowList(p_self, choice, p_statuses, 1)
    /\ p_last_rows = <<>>
    /\ p_last_status_snapshot = <<>>
    /\ p_sink = <<>>
    /\ p_updated = <<>>
    /\ p_log = <<>>

\* refresh, lines 164-180, for the rows and statuses of the tick
PipeTick ==
    /\ p_pc = "ready"
    /\ IF FavoritesRaises(p_self, p_rows, p_statuses)
       THEN /\ p_pc' = "failed"
            /\ p_log' = <<LogEvent("ERROR", <<"Controller tick failed", "AttributeError">>)>>
            /\ p_updated' = <<>>
            /\ UNCHANGED <<p_sink, p_last_rows, p_last_status_snapshot>>
       ELSE LET filtered == apply_filters(p_self, p_rows, p_statuses)
            IN  /\ p_pc' = "ticked"
                /\ p_sink' = filtered
                /\ p_last_rows' = rows_after_filters(p_self, p_rows, p_statuses)
                /\ p_last_status_snapshot' = p_statuses
                /\ p_updated' =
                      <<UpdatedEvent(1, Len(PairOrder),
                                     signal_count(p_self, filtered, p_statuses),
                                     p_statuses, "Simulator")>>
                /\ p_log' = <<>>
    /\ UNCHANGED <<p_self, p_statuses, p_rows>>

\* set_filters, lines 83-94, on the rows the last tick cached; a call with
\* the settings already in force is told apart by p_pc
PipeSetFilters(filters) ==
    LET done == IF filters = p_self.filters THEN "reapplied" ELSE "republished"
    IN  /\ p_pc = "ticked"
        /\ p_self' = SelfWith(filters)
        /\ p_log' = <<>>
        /\ IF p_last_rows = <<>>
           THEN /\ p_pc' = done
                /\ p_updated' = <<>>
                /\ UNCHANGED <<p_sink, p_last_rows>>
           ELSE IF FavoritesRaises(p_self', p_last_rows, p_last_status_snapshot)
           THEN /\ p_pc' = "escaped"
                /\ p_updated' = <<>>
                /\ UNCHANGED <<p_sink, p_last_rows>>
           ELSE LET filtered == apply_filters(p_self', p_last_rows,
                                              p_last_status_snapshot)
                IN  /\ p_pc' = done
                    /\ p_sink' = filtered
                    /\ p_last_rows' =
                          rows_after_filters(p_self', p_last_rows,
                                             p_last_status_snapshot)
                    /\ p_updated' =
                          <<UpdatedEvent(0, Len(PairOrder),
                                         signal_count(p_self', filtered,
                                                      p_last_status_snapshot),
                                         p_last_status_snapshot, "Simulator")>>
        /\ UNCHANGED <<p_statuses, p_rows, p_last_status_snapshot>>

(***************************************************************************)
(* SpecAlert: the log events of a run of ticks.                            *)
(***************************************************************************)
\* the clock when the controller is built: time.time() is far above every
\* cooldown, so `now - 0` never falls inside a cooldown window
Epoch == 100

\* how far the clock runs
AlertSpan == 9

\* seconds between two handlers
AlertSteps == {3}

AlertPairs == << Pair("BTC", "", "USDT"), Pair("ETH", "UP", "USDT") >>

\* the two quotes of one pair: Binance (bid, ask, volume), then Poloniex
AlertQuoteCases ==
    { <<105, 100, 200, 102,  99, 200>>,
      <<104, 100,  50, 102, 101, 200>>,
      << 99, 100, 200,  99, 100, 200>> }

AlertSelves ==
    { SelfWith(FilterSettings(tn, Frac(1, 2), mv, FALSE, FALSE, FALSE, FALSE, 5,
                              Frac(5, 1), 3, 500, "Simulator")) :
        tn \in {None, Some(1)}, mv \in {100} }

AlertStatuses ==
    { [name \in Exchanges |-> ExchangeStatus(name, st[name], 0, 0)] :
        st \in { [Binance |-> "Connected", Poloniex |-> "Connected"],
                 [Binance |-> "Disconnected", Poloniex |-> "Connected"],
                 [Binance |-> "Connected", Poloniex |-> "Degraded"] } }

\* an ArbRow object built at `now` from fresh quotes
AlertRow(self, pair, q, statuses, now) ==
    LET kw == row_kwargs(self, normalize_pair(pair),
                  QuoteSnapshot("Binance", pair, q[1], q[2], q[3], now),
                  QuoteSnapshot("Poloniex", pair, q[4], q[5], q[6], now),
                  statuses, now, FALSE, "Simulator")
    IN  [f \in ArbRowFields |-> kw[f]]

RECURSIVE AlertRowList(_, _, _, _, _)
AlertRowList(self, choice, statuses, now, i) ==
    IF i > Len(AlertPairs) THEN <<>>
    ELSE <<AlertRow(self, AlertPairs[i], choice[i], statuses, now)>>
         \o AlertRowList(self, choice, statuses, now, i + 1)

\* d[k] = v
DictSet(d, k, v) == [x \in DOMAIN d \cup {k} |-> IF x = k THEN v ELSE d[x]]

\* d.get(k, default)
DictGet(d, k, default) == IF k \in DOMAIN d THEN d[k] ELSE default

RECURSIVE log_signals_no_cooldown(_, _, _, _, _)
log_signals_no_cooldown(self, rows, statuses, now, cooldown) ==
    IF rows = <<>> THEN [cooldown |-> cooldown, events |-> <<>>]
    ELSE LET row  == Head(rows)
             skip == ~is_signal(self, row, statuses)
             rest == log_signals_no_cooldown(self, Tail(rows), statuses, now,
                        IF skip THEN cooldown
                        ELSE DictSet(cooldown, row.pair, now))
         IN  [cooldown |-> rest.cooldown,
              events   |-> (IF skip THEN <<>>
                            ELSE <<LogEvent("SIGNAL", <<"signal", row.pair>>)>>)
                           \o rest.events]

\* _log_signals: the map self._pair_log_cooldown after the loop, and the
\* events logged, in order
RECURSIVE log_signals(_, _, _, _, _)
log_signals(self, rows, statuses, now, cooldown) ==
    IF rows = <<>> THEN [cooldown |-> cooldown, events |-> <<>>]
    ELSE LET row       == Head(rows)
             last_time == DictGet(cooldown, row.pair, 0)
             skip      == \/ ~is_signal(self, row, statuses)
                          \/ now - last_time < self.filters.cooldown_seconds
             rest      == log_signals(self, Tail(rows), statuses, now,
                             IF skip THEN cooldown
                             ELSE DictSet(cooldown, row.pair, now))
         IN  [cooldown |-> rest.cooldown,
              events   |-> (IF skip THEN <<>>
                            ELSE <<LogEvent("SIGNAL", <<"signal", row.pair>>)>>)
                           \o rest.events]

cooldown_kept(cooldown) == cooldown

\* self._pair_log_cooldown.clear()
cooldown_after_clear(cooldown) == EmptyDict

\* the pairs of the SIGNAL events of a log
SignalPairs(log) ==
    { log[i].message[2] : i \in { k \in 1..Len(log) : log[k].level = "SIGNAL" } }

\* history: each pair of `pairs` gets the time `now` appended
Alerted(history, pairs, now) ==
    [p \in DOMAIN history \cup pairs |->
        IF p \in pairs THEN Append(DictGet(history, p, <<>>), now)
        ELSE history[p]]

AlertInit ==
    /\ a_pc = "init"
    /\ a_now = Epoch
    /\ a_self \in AlertSelves
    /\ a_mode = "Simulator"
    /\ a_pair_log_cooldown = EmptyDict
    /\ a_last_statuses = [name \in Exchanges |-> NoValue]
    /\ a_rows = <<>>
    /\ a_statuses = EmptyDict
    /\ a_filtered = <<>>
    /\ a_log = <<>>
    /\ a_since_clear = EmptyDict
    /\ a_alerted = EmptyDict

\* refresh, when provider.tick returns quotes and the rows are built: the
\* events of _log_status_changes, then those of _log_signals
AlertTick ==
    \E dt \in AlertSteps,
       choice \in [1..Len(AlertPairs) -> AlertQuoteCases],
       drawn \in AlertStatuses :
        LET now      == a_now + dt
            statuses == [name \in Exchanges |->
                            client_status(provider_clients(a_mode, Epoch)[name],
                                          drawn)]
            rows     == IF a_mode = "Simulator"
                        THEN AlertRowList(a_self, choice, statuses, now, 1)
                        ELSE <<>>
            filtered == apply_filters(a_self, rows, statuses)
            logged   == log_signals(a_self, filtered, statuses, now,
                                    a_pair_log_cooldown)
            pairs    == SignalPairs(logged.events)
        IN  /\ now <= Epoch + AlertSpan
            /\ a_pc' = "refresh"
            /\ a_now' = now
            /\ a_rows' = rows
            /\ a_statuses' = statuses
            /\ a_filtered' = filtered
            /\ a_last_statuses' = [name \in Exchanges |-> statuses[name].status]
            /\ a_pair_log_cooldown' = logged.cooldown
            /\ a_log' = StatusChangeEvents(<<"Binance", "Poloniex">>,
                                           a_last_statuses, statuses)
                        \o logged.events
            /\ a_since_clear' = Alerted(a_since_clear, pairs, now)
            /\ a_alerted' = Alerted(a_alerted, pairs, now)
            /\ UNCHANGED <<a_self, a_mode>>

\* refresh_pairs
AlertRefreshPairs ==
    /\ a_pc' = "refresh_pairs"
    /\ a_pair_log_cooldown' = cooldown_after_clear(a_pair_log_cooldown)
    /\ a_log' = <<LogEvent("INFO", <<"Refresh pairs">>)>>
    /\ a_since_clear' = EmptyDict
    /\ UNCHANGED <<a_now, a_self, a_mode, a_last_statuses, a_rows, a_statuses,
                   a_filtered, a_alerted>>

\* set_filters with the data source `mode` and the other settings kept:
\* _set_provider_mode and what it logs
AlertSetFilters(mode) ==
    /\ a_mode' = mode
    /\ IF a_mode = mode
       THEN /\ a_pc' = "set_filters"
            /\ a_log' = <<>>
            /\ UNCHANGED <<a_pair_log_cooldown, a_since_clear>>
       ELSE /\ a_pc' = "set_mode"
            /\ a_pair_log_cooldown' = cooldown_after_clear(a_pair_log_cooldown)
            /\ a_log' = <<LogEvent("INFO", <<"Provider mode", mode>>)>>
            /\ a_since_clear' = EmptyDict
    /\ a_self' = SelfWith([a_self.filters EXCEPT !.data_source = mode])
    /\ UNCHANGED <<a_now, a_last_statuses, a_rows, a_statuses, a_filtered,
                   a_alerted>>

(***************************************************************************)
(* SpecStub: core/data_provider.py in Real mode.                           *)
(***************************************************************************)
StubMaxTime == 3

stub_connect_connects(client, t) ==
    [client EXCEPT !.status = ExchangeStatus(client.name, "Connected", 0, t)]

\* RealClientStub.connect
stub_connect(client, t) ==
    [client EXCEPT !.status = ExchangeStatus(client.name, "Disconnected", 0, t)]

\* RealClientStub.disconnect
stub_disconnect(client, t) ==
    [client EXCEPT !.status = ExchangeStatus(client.name, "Disconnected", 0, t)]

\* RealClientStub.get_best_quotes
stub_get_best_quotes(client, pairs) == EmptyDict

ProviderSnapshot(quotes, statuses, pair_count, mode) ==
    [quotes |-> quotes, statuses |-> statuses, pair_count |-> pair_count,
     mode |-> mode]

\* DataProvider.tick when self._mode is not "Simulator"
provider_tick_real(clients, mode) ==
    ProviderSnapshot(EmptyDict,
                     [name \in Exchanges |-> client_status(clients[name], EmptyDict)],
                     0, mode)

StubFilters ==
    { RealFilters,
      FilterSettings(None, Frac(0, 1), 0, TRUE, TRUE, TRUE, TRUE, 5,
                     Frac(5, 1), 3, 500, "Real") }

StubInit ==
    /\ s_pc = "init"
    /\ s_now = 0
    /\ s_clients = provider_clients("Real", 0)
    /\ s_self \in { SelfWith(f) : f \in StubFilters }
    /\ s_last_update = 0
    /\ s_snapshot = NoValue
    /\ s_sink = <<>>
    /\ s_updated = <<>>

StubConnect(name) ==
    /\ s_pc' = "connect"
    /\ s_clients' = [s_clients EXCEPT ![name] = stub_connect(@, s_now)]
    /\ s_updated' = <<>>
    /\ UNCHANGED <<s_now, s_self, s_last_update, s_snapshot, s_sink>>

StubDisconnect(name) ==
    /\ s_pc' = "disconnect"
    /\ s_clients' = [s_clients EXCEPT ![name] = stub_disconnect(@, s_now)]
    /\ s_updated' = <<>>
    /\ UNCHANGED <<s_now, s_self, s_last_update, s_snapshot, s_sink>>

\* RadarController.refresh on the snapshot of DataProvider.tick: the loop
\* over snapshot.quotes.items() has nothing to run on
StubTick ==
    LET snapshot == provider_tick_real(s_clients, "Real")
        rows     == <<>>
        filtered == apply_filters(s_self, rows, snapshot.statuses)
    IN  /\ s_now < StubMaxTime
        /\ s_now' = s_now + 1
        /\ s_pc' = "refresh"
        /\ s_snapshot' = snapshot
        /\ s_sink' = filtered
        /\ s_last_update' = s_now'
        /\ s_updated' =
              <<UpdatedEvent(s_now' - s_last_update, snapshot.pair_count,
                             signal_count(s_self, filtered, snapshot.statuses),
                             snapshot.statuses, "Real")>>
        /\ UNCHANGED <<s_clients, s_self>>

\* time passes with no call running
StubAdvance ==
    /\ s_now < StubMaxTime
    /\ s_now' = s_now + 1
    /\ UNCHANGED <<s_pc, s_clients, s_self, s_last_update, s_snapshot, s_sink,
                   s_updated>>

(***************************************************************************)
(* SpecUI: ui/main_window.py, the handlers that start and stop scanning.   *)
(* Qt runs one handler at a time, each to its end: a handler is one step.  *)
(***************************************************************************)
DataSources == {"Simulator", "Real"}

\* the items of the update-interval box of the filter panel, in ms
UpdateIntervals == {250, 500}

\* RadarController.start and the two button states set after it
UiControllerStart ==
    /\ u_timer_active' = TRUE
    /\ u_log' = start_log(u_timer_active)
    /\ u_start_enabled' = FALSE
    /\ u_stop_enabled' = TRUE

\* MainWindow._on_start
UiOnStart ==
    IF u_data_source = "Real"
    THEN /\ u_log' = <<LogEvent("ERROR", <<"Real provider not implemented">>)>>
         /\ UNCHANGED <<u_timer_active, u_start_enabled, u_stop_enabled>>
    ELSE UiControllerStart

\* MainWindow._on_stop
UiOnStop ==
    /\ u_timer_active' = FALSE
    /\ u_log' = stop_log(u_timer_active)
    /\ u_start_enabled' = TRUE
    /\ u_stop_enabled' = FALSE

\* MainWindow.__init__: the data source of the loaded configuration is set
\* in the box and _schedule_filters has started the debounce timer
UiInit ==
    /\ u_pc = "init"
    /\ u_data_source \in DataSources
    /\ u_filters_timer = TRUE
    /\ u_start_enabled = TRUE
    /\ u_stop_enabled = FALSE
    /\ u_mode = "Simulator"
    /\ u_timer_active = FALSE
    /\ u_interval = 500
    /\ u_tick_mode = NoValue
    /\ u_log = <<>>

\* the user picks another item of the data-source box: currentTextChanged
\* runs _schedule_filters
UiSelectSource(source) ==
    /\ source # u_data_source
    /\ u_pc' = "select_source"
    /\ u_data_source' = source
    /\ u_filters_timer' = TRUE
    /\ u_log' = <<>>
    /\ u_tick_mode' = NoValue
    /\ UNCHANGED <<u_start_enabled, u_stop_enabled, u_mode, u_timer_active,
                   u_interval>>

\* the filter panel emits filters_changed: _schedule_filters restarts the
\* single-shot timer
UiScheduleFilters ==
    /\ u_pc' = "schedule_filters"
    /\ u_filters_timer' = TRUE
    /\ u_log' = <<>>
    /\ u_tick_mode' = NoValue
    /\ UNCHANGED <<u_data_source, u_start_enabled, u_stop_enabled, u_mode,
                   u_timer_active, u_interval>>

\* _filters_timer times out: _apply_filters, that is set_filters with the
\* data source of the box and the interval of the panel, then
\* _update_provider_state
UiApplyFilters(interval) ==
    LET is_real  == u_data_source = "Real"
        stops    == is_real /\ u_stop_enabled
        mode_log == IF u_mode # u_data_source
                    THEN <<LogEvent("INFO", <<"Provider mode", u_data_source>>)>>
                    ELSE <<>>
        stop_ev  == IF stops THEN stop_log(u_timer_active) ELSE <<>>
        real_log == IF is_real
                    THEN <<LogEvent("INFO", <<"Real provider selected (stub)">>)>>
                    ELSE <<>>
        stop_enabled == IF stops THEN FALSE ELSE u_stop_enabled
    IN  /\ u_filters_timer
        /\ u_pc' = "apply_filters"
        /\ u_filters_timer' = FALSE
        /\ u_mode' = u_data_source
        /\ u_interval' = interval
        /\ u_timer_active' = IF stops THEN FALSE ELSE u_timer_active
        /\ u_stop_enabled' = stop_enabled
        /\ u_start_enabled' = (~is_real /\ ~stop_enabled)
        /\ u_log' = mode_log \o stop_ev \o real_log
        /\ u_tick_mode' = NoValue
        /\ UNCHANGED u_data_source

\* the Start button is clicked; a disabled button emits nothing
UiStartClicked ==
    /\ u_start_enabled
    /\ u_pc' = "start_clicked"
    /\ UiOnStart
    /\ u_tick_mode' = NoValue
    /\ UNCHANGED <<u_data_source, u_filters_timer, u_mode, u_interval>>

\* Ctrl+Enter: _start_shortcut, with _is_text_input_focused() as `focused`
UiStartShortcut(focused) ==
    /\ u_pc' = "start_shortcut"
    /\ IF focused
       THEN /\ u_log' = <<>>
            /\ UNCHANGED <<u_timer_active, u_start_enabled, u_stop_enabled>>
       ELSE UiOnStart
    /\ u_tick_mode' = NoValue
    /\ UNCHANGED <<u_data_source, u_filters_timer, u_mode, u_interval>>

\* the Stop button is clicked
UiStopClicked ==
    /\ u_stop_enabled
    /\ u_pc' = "stop_clicked"
    /\ UiOnStop
    /\ u_tick_mode' = NoValue
    /\ UNCHANGED <<u_data_source, u_filters_timer, u_mode, u_interval>>

\* Ctrl+Shift+S: _stop_shortcut
UiStopShortcut(focused) ==
    /\ u_pc' = "stop_shortcut"
    /\ IF focused
       THEN /\ u_log' = <<>>
            /\ UNCHANGED <<u_timer_active, u_start_enabled, u_stop_enabled>>
       ELSE UiOnStop
    /\ u_tick_mode' = NoValue
    /\ UNCHANGED <<u_data_source, u_filters_timer, u_mode, u_interval>>

\* the controller's timer fires: refresh runs provider.tick() on the
\* clients of the provider's mode
UiTick ==
    /\ u_timer_active
    /\ u_pc' = "refresh"
    /\ u_tick_mode' = u_mode
    /\ u_log' = IF provider_tick_raises(u_mode, SortedPairs(SeqToSet(SimUniverse), 1),
                                        provider_clients(u_mode, 0))
                THEN tick_failed_log("AttributeError") ELSE <<>>
    /\ UNCHANGED <<u_data_source, u_filters_timer, u_start_enabled,
                   u_stop_enabled, u_mode, u_timer_active, u_interval>>

(***************************************************************************)
(* SpecSink: models/radar_model.py, update_rows.                           *)
(***************************************************************************)
SinkMaxLen == 2

\* the ArbRow objects a list may hold: two pairs, two sets of quotes each
SinkRows ==
    { AlertRow(SelfWith(DefaultFilters), AlertPairs[i], q,
               [name \in Exchanges |-> ExchangeStatus(name, "Connected", 0, 0)],
               0) :
        i \in 1..Len(AlertPairs),
        q \in { <<105, 100, 200, 102, 99, 200>>, <<99, 100, 200, 99, 100, 200>> } }

SinkRowLists == UNION { [1..n -> SinkRows] : n \in 0..SinkMaxLen }

\* [row.pair for row in rows]
PairsOf(rows) == [i \in 1..Len(rows) |-> rows[i].pair]

\* lines 109-117: the indexes (from 0) whose row differs, in ascending
\* order, each with its dataChanged signal
RECURSIVE Changes(_, _, _)
Changes(held, rows, i) ==
    IF i > Len(held) \/ i > Len(rows) THEN <<>>
    ELSE (IF held[i] # rows[i] THEN <<<<"dataChanged", i - 1>>>> ELSE <<>>)
         \o Changes(held, rows, i + 1)

update_rows_always_reset(held, rows) ==
    [rows |-> rows, signals |-> <<<<"modelReset">>>>]

\* RadarModel.update_rows: self._rows after the call and the signals emitted
update_rows(held, rows) ==
    IF PairsOf(rows) # PairsOf(held)
    THEN [rows |-> rows, signals |-> <<<<"modelReset">>>>]
    ELSE [rows    |-> [i \in 1..Len(held) |->
                          IF held[i] # rows[i] THEN rows[i] ELSE held[i]],
          signals |-> Changes(held, rows, 1)]

SinkInit ==
    /\ k_pc = "init"
    /\ k_rows = <<>>
    /\ k_signals = <<>>
    /\ k_held = <<>>
    /\ k_given = <<>>

SinkUpdateRows(rows) ==
    /\ k_pc' = "update_rows"
    /\ k_rows' = update_rows(k_rows, rows).rows
    /\ k_signals' = update_rows(k_rows, rows).signals
    /\ k_held' = k_rows
    /\ k_given' = rows

(***************************************************************************)
(* SpecConfig: core/config.py.  A Python value of type `X | None` is None  *)
(* or Some(x); a float is an exact fraction.  A JSON value is a record     *)
(* with its type and, but for null, true and false, its value.             *)
(***************************************************************************)
AppConfig(window_geometry, splitter_sizes_horizontal, splitter_sizes_vertical, top_n, min_profit_pct, min_volume, cooldown_sec, only_usdt, exclude_leveraged, show_only_signals, show_favorites_only, max_profit_suspicious, stale_sec, update_interval_ms, data_source, favorites) ==
    [window_geometry |-> window_geometry,
     splitter_sizes_horizontal |-> splitter_sizes_horizontal,
     splitter_sizes_vertical |-> splitter_sizes_vertical,
     top_n |-> top_n, min_profit_pct |-> min_profit_pct,
     min_volume |-> min_volume, cooldown_sec |-> cooldown_sec,
     only_usdt |-> only_usdt, exclude_leveraged |-> exclude_leveraged,
     show_only_signals |-> show_only_signals,
     show_favorites_only |-> show_favorites_only,
     max_profit_suspicious |-> max_profit_suspicious, stale_sec |-> stale_sec,
     update_interval_ms |-> update_interval_ms, data_source |-> data_source,
     favorites |-> favorites]

\* AppConfig(): the defaults of the dataclass
AppConfigDefault ==
    AppConfig(None, <<>>, <<>>, Some(50), Frac(1, 2), Frac(100000, 1), 5, FALSE,
              FALSE, FALSE, FALSE, Frac(5, 1), 3, 500, "Simulator", <<>>)

OptionalFields == {"window_geometry", "top_n"}

ListFields == {"splitter_sizes_horizontal", "splitter_sizes_vertical", "favorites"}

BoolFields ==
    {"only_usdt", "exclude_leveraged", "show_only_signals", "show_favorites_only"}

StringFields == {"data_source"}

JNull == [type |-> "null"]

JBool(b) == [type |-> IF b THEN "true" ELSE "false"]

JNumber(n) == [type |-> "number", value |-> n]

JString(str) == [type |-> "string", value |-> str]

JArray(items) == [type |-> "array", value |-> items]

\* json.dumps of one value of the dictionary of to_dict
json_dumps_value(field, v) ==
    IF field = "window_geometry" THEN (IF v = None THEN JNull ELSE JString(v[1]))
    ELSE IF field = "top_n" THEN (IF v = None THEN JNull ELSE JNumber(v[1]))
    ELSE IF field = "favorites" THEN JArray([i \in 1..Len(v) |-> JString(v[i])])
    ELSE IF field \in ListFields THEN JArray([i \in 1..Len(v) |-> JNumber(v[i])])
    ELSE IF field \in BoolFields THEN JBool(v)
    ELSE IF field \in StringFields THEN JString(v)
    ELSE JNumber(v)

\* json.loads of one value: null is None, true and false the booleans, a
\* number, a string and the items of an array themselves
json_loads_value(field, j) ==
    IF j.type = "null" THEN None
    ELSE IF j.type = "true" THEN TRUE
    ELSE IF j.type = "false" THEN FALSE
    ELSE IF j.type = "array" THEN [i \in 1..Len(j.value) |-> j.value[i].value]
    ELSE IF field \in OptionalFields THEN Some(j.value)
    ELSE j.value

\* AppConfig.to_dict
to_dict(config) == config

\* json.dumps(config.to_dict(), indent=2)
json_dumps(payload) ==
    [field \in DOMAIN payload |-> json_dumps_value(field, payload[field])]

\* json.loads of a text that is a JSON object
json_loads(doc) == [field \in DOMAIN doc |-> json_loads_value(field, doc[field])]

\* AppConfig.from_dict: payload.get(key, default) for every field
from_dict(payload) ==
    [field \in DOMAIN AppConfigDefault |->
        IF field \in DOMAIN payload THEN payload[field]
        ELSE AppConfigDefault[field]]

\* the file: absent, a JSON object, a text json.loads rejects, or bytes
\* that are no UTF-8 text
FileMissing == [kind |-> "missing"]

FileJson(doc) == [kind |-> "json", doc |-> doc]

FileText == [kind |-> "text"]

FileBytes == [kind |-> "bytes"]

\* load_config: the configuration returned and the exception raised
load_config(file) ==
    IF file.kind = "missing"
    THEN [config |-> AppConfigDefault, raised |-> NoValue]
    ELSE IF file.kind = "bytes"
    THEN \* path.read_text(encoding="utf-8") raises, outside what except names
         [config |-> AppConfigDefault, raised |-> "UnicodeDecodeError"]
    ELSE IF file.kind = "text"
    THEN \* except json.JSONDecodeError
         [config |-> AppConfigDefault, raised |-> NoValue]
    ELSE [config |-> from_dict(json_loads(file.doc)), raised |-> NoValue]

\* save_config: the file written
save_config(config) == FileJson(json_dumps(to_dict(config)))

ConfigChoices ==
    { AppConfig(wg, <<1, 2>>, <<3, 4>>, tn, mp, Frac(250000, 1), 7, usdt, TRUE, FALSE,
                TRUE, Frac(9, 1), 4, 750, "Simulator", fav) :
        wg \in {None, Some("deadbeef")},
        tn \in {None, Some(25)}, mp \in {Frac(1, 2), Frac(3, 2)},
        usdt \in BOOLEAN,
        fav \in {<<>>, <<Pair("BTC", "", "USDT")>>} }

ConfigInit ==
    /\ c_pc = "init"
    /\ c_file = FileMissing
    /\ c_saved = AppConfigDefault
    /\ c_loaded = AppConfigDefault
    /\ c_raised = NoValue

ConfigSave(config) ==
    /\ c_pc' = "save_config"
    /\ c_file' = save_config(config)
    /\ c_saved' = config
    /\ c_raised' = NoValue
    /\ UNCHANGED c_loaded

\* the file is deleted or overwritten from outside the program
ConfigOverwrite(file) ==
    /\ c_pc' = "overwritten"
    /\ c_file' = file
    /\ c_raised' = NoValue
    /\ UNCHANGED <<c_saved, c_loaded>>

ConfigLoad ==
    /\ c_pc' = "load_config"
    /\ c_raised' = load_config(c_file).raised
    /\ c_loaded' = IF load_config(c_file).raised = NoValue
                   THEN load_config(c_file).config ELSE c_loaded
    /\ UNCHANGED <<c_file, c_saved>>

(***************************************************************************)
(* SpecLive: refresh from line 164 on, set_filters and toggle_favorite, on *)
(* ticks that built their rows.  A row is an ArbRow object: it has the     *)
(* fields types.py declares.                                               *)
(***************************************************************************)
\* how far the clock runs
LiveSpan == 6

\* the settings a set_filters call may bring: the defaults with a minimum
\* volume of 100; lower thresholds; favorites only; the Real data source
LiveFilters ==
    { FilterSettings(None, Frac(1, 2), 100, FALSE, FALSE, FALSE, FALSE, 5,
                     Frac(5, 1), 3, 500, "Simulator"),
      FilterSettings(None, Frac(1, 2), 0, FALSE, FALSE, FALSE, FALSE, 5,
                     Frac(10, 1), 3, 500, "Simulator"),
      FilterSettings(None, Frac(1, 2), 100, FALSE, FALSE, FALSE, TRUE, 5,
                     Frac(5, 1), 3, 500, "Simulator"),
      FilterSettings(None, Frac(1, 2), 100, FALSE, FALSE, FALSE, FALSE, 5,
                     Frac(5, 1), 3, 500, "Real") }

LiveStatuses ==
    { [name \in Exchanges |-> ExchangeStatus(name, st[name], 0, 0)] :
        st \in { [Binance |-> "Connected", Poloniex |-> "Connected"],
                 [Binance |-> "Disconnected", Poloniex |-> "Connected"] } }

\* the attributes of the controller and of the row sink a handler may
\* change, with what the handler emitted
LiveState ==
    [sink |-> v_sink, last_rows |-> v_last_rows,
     last_status_snapshot |-> v_last_status_snapshot,
     last_pair_count |-> v_last_pair_count, last_statuses |-> v_last_statuses,
     last_update |-> v_last_update, cooldown |-> v_pair_log_cooldown,
     log |-> v_log, updated |-> v_updated, raised |-> v_raised]

refresh_stores_first(st, self, rows, statuses, pair_count, mode, now) ==
    [st EXCEPT !.last_rows = rows, !.last_status_snapshot = statuses,
               !.last_pair_count = pair_count,
               !.last_statuses = [name \in Exchanges |-> statuses[name].status],
               !.log = tick_failed_log("AttributeError"), !.updated = <<>>,
               !.raised = NoValue]

\* refresh, once provider.tick returned and the loop built `rows`
refresh(st, self, rows, statuses, pair_count, mode, now) ==
    LET changes == StatusChangeEvents(<<"Binance", "Poloniex">>,
                                      st.last_statuses, statuses)
        seen    == [name \in Exchanges |-> statuses[name].status]
    IN  IF FavoritesRaises(self, rows, statuses)
        THEN \* line 164 raises: except Exception
             [st EXCEPT !.last_statuses = seen,
                        !.log = changes \o tick_failed_log("AttributeError"),
                        !.updated = <<>>, !.raised = NoValue]
        ELSE LET filtered == apply_filters(self, rows, statuses)
                 logged   == log_signals(self, filtered, statuses, now,
                                         st.cooldown)
             IN  [sink |-> filtered,
                  last_rows |-> rows_after_filters(self, rows, statuses),
                  last_status_snapshot |-> statuses,
                  last_pair_count |-> pair_count,
                  last_statuses |-> seen,
                  last_update |-> now,
                  cooldown |-> logged.cooldown,
                  log |-> changes \o logged.events,
                  updated |-> <<UpdatedEvent(now - st.last_update, pair_count,
                                    signal_count(self, filtered, statuses),
                                    statuses, mode)>>,
                  raised |-> NoValue]

set_provider_mode_always(current, mode, cooldown) ==
    [mode |-> mode, cooldown |-> EmptyDict,
     events |-> <<LogEvent("INFO", <<"Provider mode", mode>>)>>]

\* _set_provider_mode: the provider's mode, the cooldown map and the log
set_provider_mode(current, mode, cooldown) ==
    IF current = mode
    THEN [mode |-> current, cooldown |-> cooldown, events |-> <<>>]
    ELSE [mode |-> mode, cooldown |-> cooldown_after_clear(cooldown),
          events |-> <<LogEvent("INFO", <<"Provider mode", mode>>)>>]

\* set_filters, after self._filters = filters and the provider's switch
set_filters(st, self, switched) ==
    LET base == [st EXCEPT !.cooldown = switched.cooldown,
                           !.log = switched.events, !.updated = <<>>,
                           !.raised = NoValue]
    IN  IF st.last_rows = <<>> THEN base
        ELSE IF FavoritesRaises(self, st.last_rows, st.last_status_snapshot)
        THEN [base EXCEPT !.raised = "AttributeError"]
        ELSE LET filtered == apply_filters(self, st.last_rows,
                                           st.last_status_snapshot)
             IN  [base EXCEPT
                    !.sink = filtered,
                    !.last_rows = rows_after_filters(self, st.last_rows,
                                                     st.last_status_snapshot),
                    !.updated =
                       <<UpdatedEvent(0, st.last_pair_count,
                             signal_count(self, filtered,
                                          st.last_status_snapshot),
                             st.last_status_snapshot, switched.mode)>>]

\* RadarModel.toggle_favorite, lines 91-95
toggle_favorite(favorites, pair) ==
    IF pair \in favorites THEN favorites \ {pair} ELSE favorites \cup {pair}

\* RadarModel._sync_favorites: line 196 reads row.favorite
sync_favorites(rows, favorites) ==
    IF rows = <<>> THEN [rows |-> rows, raised |-> NoValue]
    ELSE IF "favorite" \notin DOMAIN rows[1]
    THEN [rows |-> rows, raised |-> "AttributeError"]
    ELSE [rows |-> [i \in 1..Len(rows) |->
                       [rows[i] EXCEPT !.favorite = rows[i].pair \in favorites]],
          raised |-> NoValue]

LiveInit ==
    /\ v_pc = "init"
    /\ v_now = Epoch
    /\ v_mode = "Simulator"
    /\ v_self = SelfWith(FilterSettings(None, Frac(1, 2), 100, FALSE, FALSE,
                             FALSE, FALSE, 5, Frac(5, 1), 3, 500, "Simulator"))
    /\ v_favorites = {}
    /\ v_sink = <<>>
    /\ v_last_rows = <<>>
    /\ v_last_status_snapshot = EmptyDict
    /\ v_last_pair_count = 0
    /\ v_last_statuses = [name \in Exchanges |-> NoValue]
    /\ v_last_update = Epoch
    /\ v_pair_log_cooldown = EmptyDict
    /\ v_log = <<>>
    /\ v_updated = <<>>
    /\ v_raised = NoValue

LiveAssign(st) ==
    /\ v_sink' = st.sink
    /\ v_last_rows' = st.last_rows
    /\ v_last_status_snapshot' = st.last_status_snapshot
    /\ v_last_pair_count' = st.last_pair_count
    /\ v_last_statuses' = st.last_statuses
    /\ v_last_update' = st.last_update
    /\ v_pair_log_cooldown' = st.cooldown
    /\ v_log' = st.log
    /\ v_updated' = st.updated
    /\ v_raised' = st.raised

\* the timer fires: refresh
LiveTick ==
    \E dt \in AlertSteps,
       choice \in [1..Len(AlertPairs) -> AlertQuoteCases],
       drawn \in LiveStatuses :
        LET now      == v_now + dt
            statuses == [name \in Exchanges |->
                            client_status(provider_clients(v_mode, Epoch)[name],
                                          drawn)]
            rows     == IF v_mode = "Simulator"
                        THEN AlertRowList(v_self, choice, statuses, now, 1)
                        ELSE <<>>
            count    == IF v_mode = "Simulator" THEN Len(AlertPairs) ELSE 0
        IN  /\ now <= Epoch + LiveSpan
            /\ v_pc' = "refresh"
            /\ v_now' = now
            /\ LiveAssign(refresh(LiveState, v_self, rows, statuses, count,
                                  v_mode, now))
            /\ UNCHANGED <<v_mode, v_self, v_favorites>>

LiveSetFilters(filters) ==
    LET switched == set_provider_mode(v_mode, filters.data_source,
                                      v_pair_log_cooldown)
    IN  /\ v_pc' = "set_filters"
        /\ v_self' = SelfWith(filters)
        /\ v_mode' = switched.mode
        /\ LiveAssign(set_filters(LiveState, SelfWith(filters), switched))
        /\ UNCHANGED <<v_now, v_favorites>>

LiveToggleFavorite(pair) ==
    LET favorites == toggle_favorite(v_favorites, pair)
        synced    == sync_favorites(v_sink, favorites)
    IN  /\ v_pc' = "toggle_favorite"
        /\ v_favorites' = favorites
        /\ v_sink' = synced.rows
        /\ v_raised' = synced.raised
        /\ v_log' = <<>>
        /\ v_updated' = <<>>
        /\ UNCHANGED <<v_now, v_mode, v_self, v_last_rows,
                       v_last_status_snapshot, v_last_pair_count,
                       v_last_statuses, v_last_update, v_pair_log_cooldown>>

(***************************************************************************)
(* The specifications.  Each one runs its own variables and holds the      *)
(* variables of the others at rest.                                        *)
(***************************************************************************)
alertVars ==
    <<a_pc, a_now, a_self, a_mode, a_pair_log_cooldown, a_last_statuses,
      a_rows, a_statuses, a_filtered, a_log, a_since_clear, a_alerted>>

stubVars ==
    <<s_pc, s_now, s_clients, s_self, s_last_update, s_snapshot, s_sink,
      s_updated>>

uiVars ==
    <<u_pc, u_data_source, u_filters_timer, u_start_enabled, u_stop_enabled,
      u_mode, u_timer_active, u_interval, u_tick_mode, u_log>>

sinkVars == <<k_pc, k_rows, k_signals, k_held, k_given>>

configVars == <<c_pc, c_file, c_saved, c_loaded, c_raised>>

liveVars ==
    <<v_pc, v_now, v_mode, v_self, v_favorites, v_sink, v_last_rows,
      v_last_status_snapshot, v_last_pair_count, v_last_statuses,
      v_last_update, v_pair_log_cooldown, v_log, v_updated, v_raised>>

vars == <<sysVars, genVars, bodyVars, pipeVars, alertVars, stubVars, uiVars, sinkVars, configVars, liveVars>>

ctlVars ==
    <<prov_mode, prov_pairs, prov_clients, timer_active, timer_interval,
      self_filters, self_stale_sec, self_max_profit_suspicious, pair_log_cooldown,
      last_statuses, last_rows, last_status_snapshot, last_pair_count,
      self_last_update, model_rows, model_favorites, model_profit_threshold,
      model_show_favorites_only, out_log, out_updated, out_raised>>

CtlIdle ==
    /\ prov_mode = "Simulator" /\ prov_pairs = <<>> /\ prov_clients = EmptyDict
    /\ timer_active = FALSE /\ timer_interval = 500
    /\ self_filters = DefaultFilters /\ self_stale_sec = 3
    /\ self_max_profit_suspicious = Frac(5, 1)
    /\ pair_log_cooldown = EmptyDict /\ last_statuses = EmptyDict
    /\ last_rows = <<>> /\ last_status_snapshot = EmptyDict
    /\ last_pair_count = 0 /\ self_last_update = 0
    /\ model_rows = <<>> /\ model_favorites = {}
    /\ model_profit_threshold = Frac(1, 2)
    /\ model_show_favorites_only = FALSE
    /\ out_log = <<>> /\ out_updated = <<>> /\ out_raised = NoValue

SysIdle ==
    /\ clock = 0 /\ op = "idle"
    /\ sim_pairs = <<>> /\ sim_state = EmptyDict /\ sim_last_quotes = EmptyDict
    /\ sim_exchange_status = EmptyDict
    /\ CtlIdle

GenIdle == g_total = 0 /\ g_len = 0

BodyIdle ==
    /\ b_binance = EmptyDict /\ b_poloniex = EmptyDict /\ b_statuses = EmptyDict
    /\ b_self = EmptyDict /\ b_now = 0 /\ b_pc = "idle" /\ b_kwargs = <<>>
    /\ b_raised = NoValue

PipeIdle ==
    /\ p_pc = "idle" /\ p_self = EmptyDict /\ p_statuses = EmptyDict
    /\ p_rows = <<>> /\ p_last_rows = <<>> /\ p_last_status_snapshot = EmptyDict
    /\ p_sink = <<>> /\ p_updated = <<>> /\ p_log = <<>>

AlertIdle ==
    /\ a_pc = "idle" /\ a_now = 0 /\ a_self = EmptyDict /\ a_mode = "Simulator"
    /\ a_pair_log_cooldown = EmptyDict /\ a_last_statuses = EmptyDict
    /\ a_rows = <<>> /\ a_statuses = EmptyDict /\ a_filtered = <<>>
    /\ a_log = <<>> /\ a_since_clear = EmptyDict /\ a_alerted = EmptyDict

StubIdle ==
    /\ s_pc = "idle" /\ s_now = 0 /\ s_clients = EmptyDict /\ s_self = EmptyDict
    /\ s_last_update = 0 /\ s_snapshot = NoValue /\ s_sink = <<>>
    /\ s_updated = <<>>

UiIdle ==
    /\ u_pc = "idle" /\ u_data_source = "Simulator" /\ u_filters_timer = FALSE
    /\ u_start_enabled = FALSE /\ u_stop_enabled = FALSE
    /\ u_mode = "Simulator" /\ u_timer_active = FALSE /\ u_interval = 500
    /\ u_tick_mode = NoValue /\ u_log = <<>>

SinkIdle ==
    /\ k_pc = "idle" /\ k_rows = <<>> /\ k_signals = <<>> /\ k_held = <<>>
    /\ k_given = <<>>

ConfigIdle ==
    /\ c_pc = "idle" /\ c_file = EmptyDict /\ c_saved = EmptyDict
    /\ c_loaded = EmptyDict /\ c_raised = NoValue

LiveIdle ==
    /\ v_pc = "idle" /\ v_now = 0 /\ v_mode = "Simulator" /\ v_self = EmptyDict
    /\ v_favorites = {} /\ v_sink = <<>> /\ v_last_rows = <<>>
    /\ v_last_status_snapshot = EmptyDict /\ v_last_pair_count = 0
    /\ v_last_statuses = EmptyDict /\ v_last_update = 0
    /\ v_pair_log_cooldown = EmptyDict /\ v_log = <<>> /\ v_updated = <<>>
    /\ v_raised = NoValue

\* the running program, from the state the constructor leaves
Init == SysInit /\ GenIdle /\ BodyIdle /\ PipeIdle /\ AlertIdle /\ StubIdle /\ UiIdle /\ SinkIdle /\ ConfigIdle /\ LiveIdle

Next ==
    \/ Start /\ UNCHANGED <<genVars, bodyVars, pipeVars, alertVars, stubVars, uiVars, sinkVars, configVars, liveVars>>
    \/ Stop /\ UNCHANGED <<genVars, bodyVars, pipeVars, alertVars, stubVars, uiVars, sinkVars, configVars, liveVars>>
    \/ RefreshPairs /\ UNCHANGED <<genVars, bodyVars, pipeVars, alertVars, stubVars, uiVars, sinkVars, configVars, liveVars>>
    \/ \E f \in SysFilters :
          SetFilters(f) /\ UNCHANGED <<genVars, bodyVars, pipeVars, alertVars, stubVars, uiVars, sinkVars, configVars, liveVars>>
    \/ Tick /\ UNCHANGED <<genVars, bodyVars, pipeVars, alertVars, stubVars, uiVars, sinkVars, configVars, liveVars>>
    \/ Advance /\ UNCHANGED <<genVars, bodyVars, pipeVars, alertVars, stubVars, uiVars, sinkVars, configVars, liveVars>>

Spec == Init /\ [][Next]_vars

\* the sampling loop of _generate_pairs
SpecGenInit == GenInit /\ SysIdle /\ BodyIdle /\ PipeIdle /\ AlertIdle /\ StubIdle /\ UiIdle /\ SinkIdle /\ ConfigIdle /\ LiveIdle

SpecGenNext ==
    \/ GenRejected /\ UNCHANGED <<sysVars, bodyVars, pipeVars, alertVars, stubVars, uiVars, sinkVars, configVars, liveVars>>
    \/ GenDuplicate /\ UNCHANGED <<sysVars, bodyVars, pipeVars, alertVars, stubVars, uiVars, sinkVars, configVars, liveVars>>
    \/ GenNew /\ UNCHANGED <<sysVars, bodyVars, pipeVars, alertVars, stubVars, uiVars, sinkVars, configVars, liveVars>>

\* every combination keeps being sampled: a pass that appends a new pair is
\* taken whenever one stays possible
SpecGen ==
    /\ SpecGenInit
    /\ [][SpecGenNext]_vars
    /\ WF_vars(GenNew /\ UNCHANGED <<sysVars, bodyVars, pipeVars, alertVars, stubVars, uiVars, sinkVars, configVars, liveVars>>)

\* one pass of the loop body of refresh
SpecBodyInit == BodyInit /\ SysIdle /\ GenIdle /\ PipeIdle /\ AlertIdle /\ StubIdle /\ UiIdle /\ SinkIdle /\ ConfigIdle /\ LiveIdle

SpecBodyNext == BodyNext /\ UNCHANGED <<sysVars, genVars, pipeVars, alertVars, stubVars, uiVars, sinkVars, configVars, liveVars>>

SpecBody == SpecBodyInit /\ [][SpecBodyNext]_vars

\* publication of a row list
SpecPipeInit == PipeInit /\ SysIdle /\ GenIdle /\ BodyIdle /\ AlertIdle /\ StubIdle /\ UiIdle /\ SinkIdle /\ ConfigIdle /\ LiveIdle

SpecPipeNext ==
    \/ PipeTick /\ UNCHANGED <<sysVars, genVars, bodyVars, alertVars, stubVars, uiVars, sinkVars, configVars, liveVars>>
    \/ \E f \in PipeNewFilters \cup {p_self.filters} :
          PipeSetFilters(f) /\ UNCHANGED <<sysVars, genVars, bodyVars, alertVars, stubVars, uiVars, sinkVars, configVars, liveVars>>

SpecPipe == SpecPipeInit /\ [][SpecPipeNext]_vars

\* the log events of a run of ticks
SpecAlertInit == AlertInit /\ SysIdle /\ GenIdle /\ BodyIdle /\ PipeIdle /\ StubIdle /\ UiIdle /\ SinkIdle /\ ConfigIdle /\ LiveIdle

SpecAlertNext ==
    \/ AlertTick /\ UNCHANGED <<sysVars, genVars, bodyVars, pipeVars, stubVars, uiVars, sinkVars, configVars, liveVars>>
    \/ AlertRefreshPairs /\ UNCHANGED <<sysVars, genVars, bodyVars, pipeVars, stubVars, uiVars, sinkVars, configVars, liveVars>>
    \/ \E mode \in {"Simulator", "Real"} :
          AlertSetFilters(mode)
              /\ UNCHANGED <<sysVars, genVars, bodyVars, pipeVars, stubVars, uiVars, sinkVars, configVars, liveVars>>

SpecAlert == SpecAlertInit /\ [][SpecAlertNext]_vars

\* the provider in Real mode
SpecStubInit == StubInit /\ SysIdle /\ GenIdle /\ BodyIdle /\ PipeIdle /\ AlertIdle /\ UiIdle /\ SinkIdle /\ ConfigIdle /\ LiveIdle

SpecStubNext ==
    \/ \E name \in Exchanges :
          StubConnect(name)
              /\ UNCHANGED <<sysVars, genVars, bodyVars, pipeVars, alertVars, uiVars, sinkVars, configVars, liveVars>>
    \/ \E name \in Exchanges :
          StubDisconnect(name)
              /\ UNCHANGED <<sysVars, genVars, bodyVars, pipeVars, alertVars, uiVars, sinkVars, configVars, liveVars>>
    \/ StubTick /\ UNCHANGED <<sysVars, genVars, bodyVars, pipeVars, alertVars, uiVars, sinkVars, configVars, liveVars>>
    \/ StubAdvance /\ UNCHANGED <<sysVars, genVars, bodyVars, pipeVars, alertVars, uiVars, sinkVars, configVars, liveVars>>

SpecStub == SpecStubInit /\ [][SpecStubNext]_vars

\* the main window's handlers and the controller's ticks
SpecUIInit == UiInit /\ SysIdle /\ GenIdle /\ BodyIdle /\ PipeIdle /\ AlertIdle /\ StubIdle /\ SinkIdle /\ ConfigIdle /\ LiveIdle

SpecUINext ==
    \/ \E source \in DataSources :
          UiSelectSource(source)
              /\ UNCHANGED <<sysVars, genVars, bodyVars, pipeVars, alertVars, stubVars, sinkVars, configVars, liveVars>>
    \/ UiScheduleFilters /\ UNCHANGED <<sysVars, genVars, bodyVars, pipeVars, alertVars, stubVars, sinkVars, configVars, liveVars>>
    \/ \E interval \in UpdateIntervals :
          UiApplyFilters(interval)
              /\ UNCHANGED <<sysVars, genVars, bodyVars, pipeVars, alertVars, stubVars, sinkVars, configVars, liveVars>>
    \/ UiStartClicked /\ UNCHANGED <<sysVars, genVars, bodyVars, pipeVars, alertVars, stubVars, sinkVars, configVars, liveVars>>
    \/ \E focused \in BOOLEAN :
          UiStartShortcut(focused)
              /\ UNCHANGED <<sysVars, genVars, bodyVars, pipeVars, alertVars, stubVars, sinkVars, configVars, liveVars>>
    \/ UiStopClicked /\ UNCHANGED <<sysVars, genVars, bodyVars, pipeVars, alertVars, stubVars, sinkVars, configVars, liveVars>>
    \/ \E focused \in BOOLEAN :
          UiStopShortcut(focused)
              /\ UNCHANGED <<sysVars, genVars, bodyVars, pipeVars, alertVars, stubVars, sinkVars, configVars, liveVars>>
    \/ UiTick /\ UNCHANGED <<sysVars, genVars, bodyVars, pipeVars, alertVars, stubVars, sinkVars, configVars, liveVars>>

SpecUI == SpecUIInit /\ [][SpecUINext]_vars

\* calls of update_rows
SpecSinkInit == SinkInit /\ SysIdle /\ GenIdle /\ BodyIdle /\ PipeIdle /\ AlertIdle /\ StubIdle /\ UiIdle /\ ConfigIdle /\ LiveIdle

SpecSinkNext ==
    \E rows \in SinkRowLists :
        SinkUpdateRows(rows)
            /\ UNCHANGED <<sysVars, genVars, bodyVars, pipeVars, alertVars, stubVars, uiVars, configVars, liveVars>>

SpecSink == SpecSinkInit /\ [][SpecSinkNext]_vars

\* the configuration file
SpecConfigInit == ConfigInit /\ SysIdle /\ GenIdle /\ BodyIdle /\ PipeIdle /\ AlertIdle /\ StubIdle /\ UiIdle /\ SinkIdle /\ LiveIdle

SpecConfigNext ==
    \/ \E config \in ConfigChoices :
          ConfigSave(config)
              /\ UNCHANGED <<sysVars, genVars, bodyVars, pipeVars, alertVars, stubVars, uiVars, sinkVars, liveVars>>
    \/ \E file \in {FileMissing, FileText, FileBytes} :
          ConfigOverwrite(file)
              /\ UNCHANGED <<sysVars, genVars, bodyVars, pipeVars, alertVars, stubVars, uiVars, sinkVars, liveVars>>
    \/ ConfigLoad /\ UNCHANGED <<sysVars, genVars, bodyVars, pipeVars, alertVars, stubVars, uiVars, sinkVars, liveVars>>

SpecConfig == SpecConfigInit /\ [][SpecConfigNext]_vars

\* the simulator alone: ticks and pair refreshes, from a state in which
\* the prices may already have drifted down to their floors
SimMaxTime == 3

SimInit ==
    /\ clock = 0
    /\ op = "init"
    /\ \E pairs \in SimUniverses :
          /\ sim_pairs = pairs
          /\ \E base_price \in {PriceFloor, 5000}, volume_24h \in {VolumeFloor, 10000} :
                sim_state = [pair \in SeqToSet(pairs) |->
                                PairState(base_price, volume_24h, 0)]
          /\ \E sign \in [Exchanges -> BiasSigns] :
                sim_last_quotes =
                    [pair \in SeqToSet(pairs) |->
                        [exchange \in Exchanges |->
                            make_quote(exchange, pair, sim_state[pair], 0, 18,
                                       sign[exchange], 5, 100)]]
    /\ sim_exchange_status =
          [name \in Exchanges |->
              ExchangeStatus(name, "Connected", BaseLatency(name), 0)]

SimTick ==
    /\ clock < SimMaxTime
    /\ clock' = clock + 1
    /\ op' = "tick"
    /\ SimulatorTick(clock')

SimRefreshPairs(pairs) ==
    /\ clock < SimMaxTime
    /\ clock' = clock + 1
    /\ op' = "refresh_pairs"
    /\ SimulatorRefreshPairs(pairs, clock')

SpecSimInit == SimInit /\ CtlIdle /\ GenIdle /\ BodyIdle /\ PipeIdle /\ AlertIdle /\ StubIdle /\ UiIdle /\ SinkIdle /\ ConfigIdle /\ LiveIdle

SpecSimNext ==
    \/ SimTick /\ UNCHANGED <<ctlVars, genVars, bodyVars, pipeVars, alertVars, stubVars, uiVars, sinkVars, configVars, liveVars>>
    \/ \E pairs \in SimUniverses :
          SimRefreshPairs(pairs)
              /\ UNCHANGED <<ctlVars, genVars, bodyVars, pipeVars, alertVars, stubVars, uiVars, sinkVars, configVars, liveVars>>

SpecSim == SpecSimInit /\ [][SpecSimNext]_vars

\* the handlers on ticks that built their rows
SpecLiveInit == LiveInit /\ SysIdle /\ GenIdle /\ BodyIdle /\ PipeIdle /\ AlertIdle /\ StubIdle /\ UiIdle /\ SinkIdle /\ ConfigIdle

SpecLiveNext ==
    \/ LiveTick /\ UNCHANGED <<sysVars, genVars, bodyVars, pipeVars, alertVars, stubVars, uiVars, sinkVars, configVars>>
    \/ \E filters \in LiveFilters :
          LiveSetFilters(filters)
              /\ UNCHANGED <<sysVars, genVars, bodyVars, pipeVars, alertVars, stubVars, uiVars, sinkVars, configVars>>
    \/ \E pair \in SeqToSet(AlertPairs) :
          LiveToggleFavorite(pair)
              /\ UNCHANGED <<sysVars, genVars, bodyVars, pipeVars, alertVars, stubVars, uiVars, sinkVars, configVars>>

SpecLive == SpecLiveInit /\ [][SpecLiveNext]_vars

(***************************************************************************)
(* Properties of the loop body (SpecBody).                                 *)
(***************************************************************************)
Disconnected(statuses, exchange) == statuses[exchange].status = "Disconnected"

NoRepeats(s) == \A i, j \in 1..Len(s) : i # j => s[i] # s[j]

\* C3: buy routing - the buy price is the smaller of the two asks; the buy
\* venue is Poloniex (venue B) exactly when its ask is strictly below
\* Binance's (venue A), and Binance otherwise, equal asks included.
C3_BuyRouting ==
    BodyDone =>
        /\ b_kwargs.buy_price \in {b_binance.ask, b_poloniex.ask}
        /\ b_kwargs.buy_price <= b_binance.ask
        /\ b_kwargs.buy_price <= b_poloniex.ask
        /\ (b_kwargs.buy_exchange = "Poloniex") <=> (b_poloniex.ask < b_binance.ask)
        /\ (b_kwargs.buy_exchange = "Binance") <=> (b_poloniex.ask >= b_binance.ask)

C3_Witness ==
    /\ BodyDone
    /\ b_binance.ask = 100 /\ b_poloniex.ask = 99
    /\ b_kwargs.buy_exchange = "Poloniex" /\ b_kwargs.buy_price = 99

\* C4: sell routing - the sell price is the larger of the two bids; the sell
\* venue is Binance (venue A) exactly when its bid is strictly above
\* Poloniex's (venue B), and Poloniex otherwise, equal bids included,
\* whatever the buy decision was.
C4_SellRouting ==
    BodyDone =>
        /\ b_kwargs.sell_price \in {b_binance.bid, b_poloniex.bid}
        /\ b_kwargs.sell_price >= b_binance.bid
        /\ b_kwargs.sell_price >= b_poloniex.bid
        /\ (b_kwargs.sell_exchange = "Binance") <=> (b_binance.bid > b_poloniex.bid)
        /\ (b_kwargs.sell_exchange = "Poloniex") <=> (b_binance.bid <= b_poloniex.bid)

C4_Witness ==
    /\ BodyDone
    /\ b_binance.bid = 105 /\ b_poloniex.bid = 102
    /\ b_poloniex.ask < b_binance.ask
    /\ b_kwargs.buy_exchange = "Poloniex"
    /\ b_kwargs.sell_exchange = "Binance" /\ b_kwargs.sell_price = 105

\* C5: profit% is ((sell - buy) / buy) * 100 of the row's own buy and sell
\* prices and spread is sell - buy; both are signed: a sell price below the
\* buy price gives a negative profit% and a negative spread.
C5_ProfitRoundTrip ==
    BodyDone =>
        /\ b_kwargs.profit_pct.d > 0
        /\ b_kwargs.profit_pct.n * b_kwargs.buy_price
              = (b_kwargs.sell_price - b_kwargs.buy_price) * 100
                   * b_kwargs.profit_pct.d
        /\ b_kwargs.spread = b_kwargs.sell_price - b_kwargs.buy_price
        /\ (b_kwargs.sell_price < b_kwargs.buy_price =>
               b_kwargs.profit_pct.n < 0 /\ b_kwargs.spread < 0)

C5_Witness ==
    /\ BodyDone
    /\ b_kwargs.buy_price = 100 /\ b_kwargs.sell_price = 99
    /\ b_kwargs.profit_pct = [n |-> -1, d |-> 1]
    /\ b_kwargs.spread = -1

\* C6: the flag list holds Stale iff the staleness age exceeds the stale
\* ceiling or the buy or sell venue is Disconnected, LowVol iff the volume is
\* below the minimum volume, Suspicious iff profit% is strictly above the
\* suspicious ceiling, and no flag twice.
C6_QualityFlags ==
    BodyDone =>
        LET flags  == b_kwargs.quality_flags
            age    == b_now - Max(b_binance.timestamp, b_poloniex.timestamp)
            volume == Min(b_binance.volume_24h, b_poloniex.volume_24h)
            p      == b_kwargs.profit_pct
            c      == b_self.max_profit_suspicious
        IN  /\ InSeq("Stale", flags) <=>
                  \/ age > b_self.stale_sec
                  \/ Disconnected(b_statuses, b_kwargs.buy_exchange)
                  \/ Disconnected(b_statuses, b_kwargs.sell_exchange)
            /\ InSeq("LowVol", flags) <=> volume < b_self.filters.min_volume
            /\ InSeq("Suspicious", flags) <=> p.n * c.d > c.n * p.d
            /\ NoRepeats(flags)
            /\ \A i \in 1..Len(flags) : flags[i] \in {"Stale", "LowVol", "Suspicious"}

C6_Witness ==
    /\ BodyDone
    /\ b_now - Max(b_binance.timestamp, b_poloniex.timestamp) > b_self.stale_sec
    /\ Disconnected(b_statuses, b_kwargs.buy_exchange)
    /\ Disconnected(b_statuses, b_kwargs.sell_exchange)
    /\ b_kwargs.buy_exchange # b_kwargs.sell_exchange
    /\ b_kwargs.quality_flags = <<"Stale", "LowVol", "Suspicious">>

\* C7: the label is OK iff there is no flag; otherwise Suspicious if
\* Suspicious is flagged, else Stale if Stale is flagged, else LowVol.  With
\* Binance ask 100, Poloniex ask 99, Binance bid 105, Poloniex bid 102 and
\* the default ceiling 5.0 the label is Suspicious.
C7_QualityLabel ==
    BodyDone =>
        LET flags == b_kwargs.quality_flags
            label == b_kwargs.quality
        IN  /\ (label = "OK") <=> (flags = <<>>)
            /\ InSeq("Suspicious", flags) => label = "Suspicious"
            /\ (InSeq("Stale", flags) /\ ~InSeq("Suspicious", flags))
                  => label = "Stale"
            /\ (flags # <<>> /\ ~InSeq("Stale", flags)
                  /\ ~InSeq("Suspicious", flags)) => label = "LowVol"
            /\ (/\ b_binance.ask = 100 /\ b_poloniex.ask = 99
                /\ b_binance.bid = 105 /\ b_poloniex.bid = 102
                /\ b_self.max_profit_suspicious = [n |-> 5, d |-> 1])
                  => label = "Suspicious"

C7_Witness ==
    /\ BodyDone
    /\ b_binance.ask = 100 /\ b_poloniex.ask = 99
    /\ b_binance.bid = 105 /\ b_poloniex.bid = 102
    /\ b_kwargs.profit_pct = [n |-> 200, d |-> 33]
    /\ InSeq("Stale", b_kwargs.quality_flags)
    /\ b_kwargs.quality = "Suspicious"

\* C36: a row that buys and sells on the same venue keeps that venue's ask
\* as buy price and its bid as sell price; with bid < ask on both venues
\* its profit percent is strictly negative, so for a minimum profit >= 0 it
\* is not a signal and _log_signals logs nothing for it.
C36_DegenerateRouting ==
    (/\ BodyDone
     /\ b_binance.bid < b_binance.ask
     /\ b_poloniex.bid < b_poloniex.ask
     /\ b_kwargs.buy_exchange = b_kwargs.sell_exchange) =>
        LET venue == IF b_kwargs.buy_exchange = "Binance" THEN b_binance
                     ELSE b_poloniex
        IN  /\ b_kwargs.buy_price = venue.ask
            /\ b_kwargs.sell_price = venue.bid
            /\ b_kwargs.profit_pct.d > 0
            /\ b_kwargs.profit_pct.n < 0
            /\ \A min_profit \in {Frac(0, 1), Frac(1, 2)} :
                  LET self == [filters |-> [min_profit |-> min_profit,
                                            cooldown_seconds |-> 5]]
                  IN  /\ ~is_signal(self, b_kwargs, b_statuses)
                      /\ log_signals(self, <<b_kwargs>>, b_statuses, b_now,
                                     EmptyDict).events = <<>>

C36_Witness ==
    /\ BodyDone
    /\ b_binance.bid = 100 /\ b_binance.ask = 102
    /\ b_poloniex.bid = 99 /\ b_poloniex.ask = 105
    /\ b_kwargs.buy_exchange = "Binance"
    /\ b_kwargs.sell_exchange = "Binance"
    /\ b_statuses["Binance"].status = "Connected"

(***************************************************************************)
(* Properties of publication (SpecPipe).                                   *)
(***************************************************************************)
RowDisconnected(row, statuses) ==
    \/ Disconnected(statuses, row.buy_exchange)
    \/ Disconnected(statuses, row.sell_exchange)

\* the published rows that meet the profit floor on venues not Disconnected
CountedRows(self, sink, statuses) ==
    { i \in 1..Len(sink) :
        /\ FracLE(self.filters.min_profit, sink[i].profit_pct)
        /\ ~RowDisconnected(sink[i], statuses) }

\* C8: a row whose buy or sell venue is Disconnected is flagged Stale, and it
\* is not counted in the signal count of that tick: the count is at most the
\* number of published rows with no Disconnected venue.
C8_DisconnectedNotCounted ==
    /\ \A i \in 1..Len(p_rows) :
          RowDisconnected(p_rows[i], p_statuses)
              => InSeq("Stale", p_rows[i].quality_flags)
    /\ p_pc = "ticked" =>
          p_updated[1].signal_count
              <= Cardinality({ i \in 1..Len(p_sink) :
                                 ~RowDisconnected(p_sink[i], p_statuses) })

C8_Witness ==
    /\ p_pc = "ticked"
    /\ Len(p_sink) >= 2
    /\ p_updated[1].signal_count = 0
    /\ \A i \in 1..Len(p_sink) :
          /\ RowDisconnected(p_sink[i], p_statuses)
          /\ FracLE(p_self.filters.min_profit, p_sink[i].profit_pct)
          /\ InSeq("Stale", p_sink[i].quality_flags)

\* C9: the signal count carried by every update event, of a tick or of a
\* republish after a settings change, is the number of published rows whose
\* profit percent is at least the minimum profit and whose buy and sell
\* venues are both not Disconnected; a Degraded venue does not disqualify.
C9_SignalCount ==
    \A k \in 1..Len(p_updated) :
        p_updated[k].signal_count
            = Cardinality(CountedRows(p_self, p_sink, p_updated[k].statuses))

C9_Witness ==
    /\ p_pc \in {"republished", "reapplied"}
    /\ Len(p_updated) = 1
    /\ p_updated[1].signal_count >= 1
    /\ p_updated[1].signal_count < Len(p_sink)
    /\ \E i \in CountedRows(p_self, p_sink, p_updated[1].statuses) :
          p_updated[1].statuses[p_sink[i].buy_exchange].status = "Degraded"

\* the row was built as a favourite
RowFavorite(row) == \E pair \in PipeFavorites : normalize_pair(pair) = row.pair

\* the active filters, read off the row
PassesActiveFilters(self, row, statuses) ==
    /\ row.volume_24h >= self.filters.min_volume
    /\ self.filters.only_usdt => EndsWithSlashUSDT(row.pair)
    /\ self.filters.exclude_leveraged => row.pair.suffix \notin {"UP", "DOWN"}
    /\ self.filters.show_only_signals =>
          /\ FracLE(self.filters.min_profit, row.profit_pct)
          /\ ~RowDisconnected(row, statuses)
    /\ self.filters.show_favorites_only => RowFavorite(row)

\* C10: every published row satisfies all active filters (volume at least
\* the minimum volume; with the respective toggle on: pair ending /USDT, base
\* not ending UP or DOWN, row a signal, row a favourite); and with top N
\* unset every row that passes all active filters is published.
C10_FilterSoundness ==
    LET rows     == IF p_pc \in {"ticked", "failed"} THEN p_rows ELSE p_last_rows
        statuses == IF p_pc \in {"ticked", "failed"} THEN p_statuses
                    ELSE p_last_status_snapshot
    IN  p_pc # "ready" =>
          /\ \A i \in 1..Len(p_sink) :
                PassesActiveFilters(p_self, p_sink[i], statuses)
          /\ p_self.filters.top_n = None =>
                \A i \in 1..Len(rows) :
                    PassesActiveFilters(p_self, rows[i], statuses)
                        => InSeq(rows[i], p_sink)

\* the unfiltered rows and the statuses the last publication worked on
PipeSourceRows == IF p_pc \in {"ticked", "failed"} THEN p_rows ELSE p_last_rows

PipeSourceStatuses ==
    IF p_pc \in {"ticked", "failed"} THEN p_statuses ELSE p_last_status_snapshot

\* the last handler delivered a list to the sink
PipePublished ==
    p_pc \in {"ticked", "republished", "reapplied"} /\ Len(p_updated) = 1

\* C11: for any row set and any configured integer top N the published list
\* has at most top N rows, and they are the top N by profit percent among
\* the rows passing the pre-filters: no passing row left out has a strictly
\* higher profit percent than a published row.
C11_TopNTruncation ==
    (PipePublished /\ p_self.filters.top_n # None) =>
        /\ Len(p_sink) <= p_self.filters.top_n[1]
        /\ \A i \in 1..Len(PipeSourceRows) :
              (/\ PassesActiveFilters(p_self, PipeSourceRows[i],
                                      PipeSourceStatuses)
               /\ ~InSeq(PipeSourceRows[i], p_sink))
                  => \A j \in 1..Len(p_sink) :
                        ~FracLT(p_sink[j].profit_pct,
                                PipeSourceRows[i].profit_pct)

\* C12: every published list is in ascending order of pair identifier,
\* whatever the profit percents of its rows are: profit percent decides which
\* rows are in the list, not where they stand.
C12_PairOrder ==
    PipePublished =>
        \A i, j \in 1..Len(p_sink) :
            i < j => PairRank(p_sink[i].pair) <= PairRank(p_sink[j].pair)

C12_Witness ==
    /\ PipePublished
    /\ Len(p_sink) >= 2
    /\ Len(p_sink) < Len(PipeSourceRows)
    /\ FracLT(p_sink[1].profit_pct, p_sink[2].profit_pct)

C34_QualityAfterSettings ==
    (p_pc \in {"republished", "reapplied"} /\ Len(p_updated) = 1) =>
        \A i \in 1..Len(p_sink) :
            LET row == p_sink[i]
            IN  /\ InSeq("Suspicious", row.quality_flags)
                      <=> FracLT(p_self.max_profit_suspicious, row.profit_pct)
                /\ InSeq("LowVol", row.quality_flags)
                      <=> row.volume_24h < p_self.filters.min_volume
                /\ row.updated_secs > p_self.stale_sec
                      => InSeq("Stale", row.quality_flags)
                /\ (/\ InSeq("Stale", row.quality_flags)
                    /\ ~RowDisconnected(row, p_last_status_snapshot))
                      => row.updated_secs > p_self.stale_sec
                /\ row.quality = quality_label(row.quality_flags)

RowLowVol(row) == InSeq("LowVol", row.quality_flags) \/ row.quality = "LowVol"

\* C38: no row a tick publishes carries the LowVol flag or the LowVol
\* label; a row with LowVol is in the sink only after a set_filters call
\* that brought a lower minimum volume than the one in force before.
C38_NoLowVolFromTick ==
    /\ [](p_pc = "ticked" => \A i \in 1..Len(p_sink) : ~RowLowVol(p_sink[i]))
    /\ [][(\E i \in 1..Len(p_sink') : RowLowVol(p_sink'[i])) =>
             /\ p_pc = "ticked"
             /\ p_pc' = "republished"
             /\ p_self'.filters.min_volume < p_self.filters.min_volume]_vars

C38_Witness ==
    /\ p_pc = "republished"
    /\ p_self.filters.min_volume = 0
    /\ \E i \in 1..Len(p_sink) :
          /\ InSeq("LowVol", p_sink[i].quality_flags)
          /\ p_sink[i].quality = "LowVol"
          /\ p_sink[i].volume_24h = 50

(***************************************************************************)
(* Properties of the log of a run of ticks (SpecAlert).                    *)
(***************************************************************************)
\* a step of refresh: every tick moves the clock
AlertTickStep == a_pc' = "refresh" /\ a_now' # a_now

\* the number of SIGNAL events of `log` for `pair`
SignalEvents(log, pair) ==
    Cardinality({ i \in 1..Len(log) :
                    log[i].level = "SIGNAL" /\ log[i].message[2] = pair })

\* the number of status events of `log` for the venue `name`
StatusEvents(log, name) ==
    Cardinality({ i \in 1..Len(log) :
                    /\ log[i].level = "INFO"
                    /\ log[i].message[1] = "status"
                    /\ log[i].message[2] = name })

\* no alert of `pair` since the map was last cleared lies within the
\* cooldown window that ends at `now`
OutsideCooldown(history, pair, now) ==
    \/ pair \notin DOMAIN history
    \/ now - history[pair][Len(history[pair])] >= a_self.filters.cooldown_seconds

\* the rows of `rows` that satisfy the signal predicate under `statuses`
SignalRows(rows, statuses) ==
    { rows[i] : i \in { k \in 1..Len(rows) : is_signal(a_self, rows[k], statuses) } }

\* C14: alert throttling.  Two consecutive SIGNAL events of one pair with no
\* pair refresh and no mode change between them are at least the cooldown
\* apart, and a tick logs at most one for a pair; a published signal row is
\* alerted in a tick exactly when its pair's last alert since the last clear
\* is a cooldown or more ago (so qualifying ticks 3 s apart with cooldown 5
\* alert on the first and the third only).
C14_AlertThrottling ==
    [][/\ \A p \in DOMAIN a_since_clear' :
             \A i \in 1..(Len(a_since_clear'[p]) - 1) :
                a_since_clear'[p][i + 1] - a_since_clear'[p][i]
                    >= a_self.filters.cooldown_seconds
       /\ AlertTickStep =>
             \A r \in SignalRows(a_filtered', a_statuses') :
                SignalEvents(a_log', r.pair) =
                    IF OutsideCooldown(a_since_clear, r.pair, a_now')
                    THEN 1 ELSE 0]_vars

\* a second alert of a pair, a cooldown or more after its first, with no
\* clear between the two
C14_Witness ==
    /\ a_pc = "refresh"
    /\ \E p \in DOMAIN a_since_clear :
          /\ Len(a_since_clear[p]) = 2
          /\ a_since_clear[p][2] = a_now
          /\ SignalEvents(a_log, p) = 1

\* C15: alert coverage.  In a tick every computed row that satisfies the
\* signal predicate and whose pair has no alert within the cooldown window
\* causes exactly one SIGNAL event, whether or not the pipeline publishes it.
C15_AlertCoverage ==
    [][AlertTickStep =>
          \A r \in SignalRows(a_rows', a_statuses') :
             OutsideCooldown(a_since_clear, r.pair, a_now') =>
                SignalEvents(a_log', r.pair) = 1]_vars

\* C16: the last-alert map is empty right after refresh_pairs and right
\* after a set_filters that changes the data source; a published signal row
\* whose pair has not alerted since is alerted by its tick, however recent
\* the pair's alert before the clear.
C16_CooldownCleared ==
    [][/\ a_pc' \in {"refresh_pairs", "set_mode"} =>
             a_pair_log_cooldown' = EmptyDict
       /\ AlertTickStep =>
             \A r \in SignalRows(a_filtered', a_statuses') :
                r.pair \notin DOMAIN a_since_clear =>
                   SignalEvents(a_log', r.pair) = 1]_vars

\* a pair alerts again less than a cooldown after its last alert, the map
\* having been cleared between the two
C16_Witness ==
    /\ a_pc = "refresh"
    /\ \E p \in DOMAIN a_since_clear :
          /\ SignalEvents(a_log, p) = 1
          /\ Len(a_since_clear[p]) = 1
          /\ Len(a_alerted[p]) >= 2
          /\ a_alerted[p][Len(a_alerted[p])] - a_alerted[p][Len(a_alerted[p]) - 1]
                < a_self.filters.cooldown_seconds

\* C17: status-change logging.  A tick logs one status event for a venue
\* when the label it observes differs from the label the previous tick
\* observed, and none on the first observation or when the label is the same.
C17_StatusChangeLogging ==
    [][AlertTickStep =>
          \A name \in Exchanges :
             StatusEvents(a_log', name) =
                IF /\ a_statuses # EmptyDict
                   /\ a_statuses[name].status # a_statuses'[name].status
                THEN 1 ELSE 0]_vars

\* a tick that observes Degraded after Connected and logs it
C17_Witness ==
    /\ a_pc = "refresh"
    /\ a_statuses["Poloniex"].status = "Degraded"
    /\ StatusEvents(a_log, "Poloniex") = 1
    /\ StatusEvents(a_log, "Binance") = 0

(***************************************************************************)
(* Properties of the provider in Real mode (SpecStub).                     *)
(***************************************************************************)
\* C22: whatever connect and disconnect calls were made, each stub client
\* reports Disconnected, lists no pair and returns an empty quote map; the
\* snapshot of a provider tick has no quotes, pair count 0 and both venues
\* Disconnected, and the controller's tick on it publishes the empty row
\* list with signal count 0.
C22_LiveFeedStub ==
    /\ \A name \in Exchanges :
          /\ client_status(s_clients[name], EmptyDict).status = "Disconnected"
          /\ client_get_pairs(s_clients[name], SimUniverse) = <<>>
          /\ stub_get_best_quotes(s_clients[name], SimUniverse) = EmptyDict
    /\ s_pc = "refresh" =>
          /\ s_snapshot.quotes = EmptyDict
          /\ s_snapshot.pair_count = 0
          /\ \A name \in Exchanges :
                s_snapshot.statuses[name].status = "Disconnected"
          /\ s_sink = <<>>
          /\ Len(s_updated) = 1
          /\ s_updated[1].signal_count = 0
          /\ s_updated[1].pair_count = 0

\* a tick after connect or disconnect was called on both stub clients
C22_Witness ==
    /\ s_pc = "refresh"
    /\ \A name \in Exchanges : s_clients[name].status.changed_at > 0
    /\ Len(s_updated) = 1

(***************************************************************************)
(* Properties of the main window's handlers (SpecUI).                      *)
(***************************************************************************)
\* C23: in every interleaving of data-source selection, debounced filter
\* application, Start and Stop requests and ticks, the controller's timer
\* is not running while the provider's mode is Real, and no tick runs on
\* the stub clients.
C23_NoStartInReal ==
    /\ ~(u_timer_active /\ u_mode = "Real")
    /\ u_tick_mode # "Real"

(***************************************************************************)
(* Properties of the row sink (SpecSink).                                  *)
(***************************************************************************)
\* C25: update_rows resets the model exactly when the sequence of pairs of
\* the given list differs from that of the held list; otherwise it emits
\* one dataChanged signal for each position whose given row differs from
\* the held row and for no other position; either way the sink then holds
\* the given rows in the given order.
C25_UpdateRows ==
    k_pc = "update_rows" =>
        /\ k_rows = k_given
        /\ IF PairsOf(k_given) # PairsOf(k_held)
           THEN k_signals = <<<<"modelReset">>>>
           ELSE /\ \A j \in 1..Len(k_signals) : k_signals[j][1] = "dataChanged"
                /\ \A i \in 1..Len(k_given) :
                      Cardinality({ j \in 1..Len(k_signals) :
                                      k_signals[j][2] = i - 1 })
                         = IF k_given[i] # k_held[i] THEN 1 ELSE 0
                /\ Len(k_signals) <= Len(k_given)

\* a call with the same pairs that changes the second row only
C25_Witness ==
    /\ k_pc = "update_rows"
    /\ Len(k_rows) = 2
    /\ k_signals = <<<<"dataChanged", 1>>>>
    /\ k_held[1] = k_rows[1]
    /\ k_held[2] # k_rows[2]

(***************************************************************************)
(* Properties of the configuration file (SpecConfig).                      *)
(***************************************************************************)
\* C26: load_config after save_config(c) returns a configuration equal to
\* c in every field, top_n = None included; with the file missing or not
\* valid JSON it returns the default configuration.
C26_ConfigRoundTrip ==
    c_pc = "load_config" =>
        /\ c_raised = NoValue
        /\ c_file.kind = "json" => c_loaded = c_saved
        /\ c_file.kind # "json" => c_loaded = AppConfigDefault

(***************************************************************************)
(* Properties of the simulator (SpecSim).                                  *)
(***************************************************************************)
SimTickStep == op' = "tick" /\ clock' # clock

StatusTransitions ==
    {<<"Connected", "Degraded">>, <<"Degraded", "Disconnected">>,
     <<"Degraded", "Connected">>, <<"Disconnected", "Connected">>}

\* C27: a tick moves each venue's status by at most one transition, and
\* only along Connected -> Degraded, Degraded -> Disconnected, Degraded ->
\* Connected and Disconnected -> Connected; from every status some roll of
\* the next tick, or of the one after it, brings the venue to Connected.
C27_StatusMachine ==
    /\ [][SimTickStep =>
            \A name \in Exchanges :
                \/ sim_exchange_status'[name].status = sim_exchange_status[name].status
                \/ <<sim_exchange_status[name].status,
                      sim_exchange_status'[name].status>> \in StatusTransitions]_vars
    /\ [](\A name \in Exchanges :
            \E roll \in RollChoices :
                next_status(sim_exchange_status[name].status, roll) = "Connected")

C27_Witness ==
    /\ op = "tick"
    /\ clock = 3
    /\ sim_exchange_status["Binance"].status = "Connected"
    /\ sim_exchange_status["Binance"].changed_at = 3
    /\ sim_exchange_status["Poloniex"].status = "Disconnected"

\* C28: after a tick a venue's changed_at is the time of the tick when its
\* status changed in that tick, and its previous value when it did not.
C28_ChangedAt ==
    [][SimTickStep =>
        \A name \in Exchanges :
            sim_exchange_status'[name].changed_at =
                IF sim_exchange_status'[name].status # sim_exchange_status[name].status
                THEN clock' ELSE sim_exchange_status[name].changed_at]_vars

C28_Witness ==
    /\ op = "tick"
    /\ clock = 3
    /\ sim_exchange_status["Binance"].changed_at = 3
    /\ sim_exchange_status["Poloniex"].changed_at = 1
    /\ sim_exchange_status["Poloniex"].status = "Degraded"

\* C29: in a tick a venue that is Disconnected after the tick's status
\* step keeps, for every pair, exactly its previous quote; a Connected or
\* Degraded venue gets a quote stamped with the time of the tick; and in
\* every state the cache has both venues' quotes for every tracked pair.
C29_FrozenFeed ==
    /\ [][SimTickStep =>
            \A pair \in SeqToSet(sim_pairs), exchange \in Exchanges :
                IF sim_exchange_status'[exchange].status = "Disconnected"
                THEN sim_last_quotes'[pair][exchange] = sim_last_quotes[pair][exchange]
                ELSE sim_last_quotes'[pair][exchange].timestamp = clock']_vars
    /\ [](/\ DOMAIN sim_last_quotes = SeqToSet(sim_pairs)
          /\ \A pair \in SeqToSet(sim_pairs) :
                /\ DOMAIN sim_last_quotes[pair] = Exchanges
                /\ \A exchange \in Exchanges :
                      /\ sim_last_quotes[pair][exchange].pair = pair
                      /\ sim_last_quotes[pair][exchange].exchange = exchange)

C29_Witness ==
    /\ op = "tick"
    /\ clock = 3
    /\ Len(sim_pairs) = 2
    /\ sim_exchange_status["Binance"].status = "Disconnected"
    /\ sim_exchange_status["Binance"].changed_at = 2
    /\ \A pair \in SeqToSet(sim_pairs) :
          /\ sim_last_quotes[pair]["Binance"].timestamp = 1
          /\ sim_last_quotes[pair]["Poloniex"].timestamp = 3

\* C30: in every state every tracked pair's base price is at least 0.01
\* and its volume at least 500, and every cached quote has 0 < bid < ask,
\* so the buy price the profit is divided by is never zero.
C30_PositivePrices ==
    \A pair \in SeqToSet(sim_pairs) :
        /\ sim_state[pair].base_price >= PriceFloor
        /\ sim_state[pair].volume_24h >= VolumeFloor
        /\ \A exchange \in Exchanges :
              /\ 0 < sim_last_quotes[pair][exchange].bid
              /\ sim_last_quotes[pair][exchange].bid < sim_last_quotes[pair][exchange].ask

C30_Witness ==
    /\ op = "tick"
    /\ clock = 2
    /\ \E pair \in SeqToSet(sim_pairs) :
          /\ sim_state[pair].base_price = PriceFloor
          /\ sim_state[pair].volume_24h = VolumeFloor
          /\ sim_state[pair].last_update = 2
          /\ sim_last_quotes[pair]["Binance"].timestamp = 2

(***************************************************************************)
(* Properties of the running program (Spec).                               *)
(***************************************************************************)
\* C1: in Simulator mode a tick over a non-empty pair intersection publishes
\* rather than failing; with permissive filters (minimum volume 0, minimum
\* profit 0, no toggles) and top N = 5 it leaves the sink with at least 1 and
\* at most 5 rows.
C1_TickPublishes ==
    (op = "refresh" /\ prov_mode = "Simulator" /\ prov_pairs # <<>>) =>
        /\ Len(out_updated) = 1
        /\ \A i \in 1..Len(out_log) : out_log[i].level # "ERROR"
        /\ self_filters = TestFilters =>
              (1 <= Len(model_rows) /\ Len(model_rows) <= 5)

\* a step of a handler other than refresh: no time passes while it runs
CallStep == clock' = clock

\* `log` holds the event `message`
Logged(log, message) == \E i \in 1..Len(log) : log[i].message = message

\* C18: Start on a running timer and Stop on a stopped timer change nothing
\* and log nothing; a call logs 'START scanning' exactly when it takes the
\* timer from stopped to running and 'STOP scanning' exactly when it takes
\* it from running to stopped, and nothing else changes the timer's running
\* state: from the stopped timer of construction the two events alternate,
\* START first.
C18_StartStopIdempotent ==
    [][/\ (CallStep /\ op' = "start" /\ timer_active) =>
             /\ out_log' = <<>>
             /\ UNCHANGED <<simVars, provVars, timer_active, timer_interval,
                            self_filters, self_stale_sec,
                            self_max_profit_suspicious, pair_log_cooldown,
                            last_statuses, last_rows, last_status_snapshot,
                            last_pair_count, self_last_update, modelVars>>
       /\ (CallStep /\ op' = "stop" /\ ~timer_active) =>
             /\ out_log' = <<>>
             /\ UNCHANGED <<simVars, provVars, timer_active, timer_interval,
                            self_filters, self_stale_sec,
                            self_max_profit_suspicious, pair_log_cooldown,
                            last_statuses, last_rows, last_status_snapshot,
                            last_pair_count, self_last_update, modelVars>>
       /\ CallStep =>
             /\ Logged(out_log', <<"START scanning">>)
                   <=> (~timer_active /\ timer_active')
             /\ Logged(out_log', <<"STOP scanning">>)
                   <=> (timer_active /\ ~timer_active')
       /\ timer_active' # timer_active =>
             /\ CallStep
             /\ Len(out_log') = 1]_vars

\* a Start on a running timer has returned
C18_Witness ==
    /\ op = "start"
    /\ timer_active
    /\ out_log = <<>>
    /\ clock > 0

\* C19: a tick in which a step raises logs exactly one ERROR event, lets no
\* exception out of the handler and leaves the timer running, so that the
\* timer fires the handler again.
C19_TickFailurePolicy ==
    [][(/\ timer_active
        /\ op' = "refresh"
        /\ clock' # clock
        /\ provider_tick_raises(prov_mode, prov_pairs, prov_clients)) =>
          /\ Len(out_log') = 1
          /\ out_log'[1].level = "ERROR"
          /\ out_updated' = <<>>
          /\ out_raised' = NoValue
          /\ timer_active']_vars

\* a tick has failed after an earlier one did, and the timer still runs
C19_Witness ==
    /\ op = "refresh"
    /\ clock >= 2
    /\ timer_active
    /\ prov_mode = "Simulator"
    /\ Len(out_log) = 1
    /\ out_log[1].level = "ERROR"
    /\ out_raised = NoValue

\* C20: every set_filters call, in any state, publishes the pipeline's
\* result for the rows of the most recent tick and emits one update event
\* with latency 0, also when those rows are the empty list.
C20_SettingsUpdate ==
    op = "set_filters" =>
        /\ Len(out_updated) = 1
        /\ out_updated[1].latency = 0
        /\ model_rows = apply_filters(Self, last_rows, last_status_snapshot)

\* a step of refresh: the clock moves and the handler leaves its mark
RefreshStep ==
    /\ op' = "refresh"
    /\ clock' # clock
    /\ \/ op # "refresh"
       \/ <<simVars, out_log, out_updated, self_last_update, model_rows,
            last_rows, last_status_snapshot, last_statuses>>'
             # <<simVars, out_log, out_updated, self_last_update, model_rows,
                  last_rows, last_status_snapshot, last_statuses>>

\* C24: Stop leaves the timer stopped, and a tick runs (and an update event
\* of a tick is emitted) only while the timer runs, so none does between a
\* Stop and the next Start; Stop changes the timer's running state and
\* logs at most one event, and leaves the published rows, the unfiltered
\* row cache, the status snapshot, the cooldown map and everything else as
\* they were.
C24_StopCancels ==
    [][/\ (CallStep /\ op' = "stop") =>
             /\ ~timer_active'
             /\ out_log' = IF timer_active
                           THEN <<LogEvent("INFO", <<"STOP scanning">>)>>
                           ELSE <<>>
             /\ out_updated' = <<>>
             /\ UNCHANGED <<simVars, provVars, timer_interval, self_filters,
                            self_stale_sec, self_max_profit_suspicious,
                            pair_log_cooldown, last_statuses, last_rows,
                            last_status_snapshot, last_pair_count,
                            self_last_update, modelVars>>
       /\ RefreshStep => timer_active
       /\ (~timer_active /\ ~timer_active') =>
             (out_updated' # out_updated => (CallStep /\ op' # "refresh"))]_vars

\* Stop has stopped a running timer after a tick that completed
C24_Witness ==
    /\ op = "stop"
    /\ ~timer_active
    /\ Len(out_log) = 1
    /\ last_status_snapshot # EmptyDict
    /\ self_last_update > 0

\* C31: in every state (after construction, every mode switch and every
\* pair refresh) the provider's pair list in Simulator mode holds exactly
\* the pairs both venue clients list, in strictly ascending order (hence
\* without duplicates), and is empty in any other mode; the pair count of
\* every snapshot a tick obtained is the length of that list and its mode
\* label is the provider's mode.
C31_PairDiscovery ==
    /\ IF prov_mode = "Simulator"
       THEN /\ SeqToSet(prov_pairs) =
                  SeqToSet(client_get_pairs(prov_clients["Binance"], sim_pairs))
                    \cap SeqToSet(client_get_pairs(prov_clients["Poloniex"],
                                                   sim_pairs))
            /\ \A i, j \in 1..Len(prov_pairs) :
                  i < j => PairRank(prov_pairs[i]) < PairRank(prov_pairs[j])
       ELSE prov_pairs = <<>>
    /\ (op = "refresh" /\ out_updated # <<>>) =>
          /\ out_updated[1].pair_count = Len(prov_pairs)
          /\ out_updated[1].provider_mode = prov_mode

C31_Witness ==
    /\ op = "set_filters"
    /\ prov_mode = "Simulator"
    /\ Logged(out_log, <<"Provider mode", "Simulator">>)
    /\ prov_pairs = <<Pair("BTC", "", "USDT"), Pair("ETH", "UP", "USDT")>>
    /\ last_status_snapshot # EmptyDict

\* C21: a pair refresh in Simulator mode rebuilds the simulator's per-pair
\* state: every tracked pair's price state and both its cached quotes are
\* made at the time of the call, and the provider's pair list is that of
\* the universe.
C21_RefreshRegenerates ==
    [][(CallStep /\ op' = "refresh_pairs" /\ prov_mode = "Simulator") =>
          /\ \A pair \in SeqToSet(sim_pairs') :
                /\ sim_state'[pair].last_update = clock'
                /\ \A exchange \in Exchanges :
                      sim_last_quotes'[pair][exchange].timestamp = clock'
          /\ SeqToSet(prov_pairs') = SeqToSet(sim_pairs')]_vars

(***************************************************************************)
(* Properties of the handlers on built rows (SpecLive).                    *)
(***************************************************************************)
LiveTickStep == v_pc' = "refresh" /\ v_now' # v_now

LiveSetFiltersStep == v_pc' = "set_filters"

HasLevel(log, level) == \E i \in 1..Len(log) : log[i].level = level

\* C32: a tick that raises before its results are stored leaves the row
\* sink's list, the unfiltered row cache, the cached status snapshot, the
\* cached pair count and the cooldown map as they were, and emits no update
\* event and no SIGNAL event.
C32_FailedTick ==
    [][(LiveTickStep /\ HasLevel(v_log', "ERROR")) =>
          /\ UNCHANGED <<v_sink, v_last_rows, v_last_status_snapshot,
                         v_last_pair_count, v_pair_log_cooldown>>
          /\ v_updated' = <<>>
          /\ ~HasLevel(v_log', "SIGNAL")]_vars

C32_Witness ==
    /\ v_pc = "refresh"
    /\ HasLevel(v_log, "ERROR")
    /\ v_now = Epoch + 6
    /\ v_sink # <<>>
    /\ v_last_rows # <<>>
    /\ v_last_status_snapshot["Binance"].status = "Connected"
    /\ v_last_statuses["Binance"] = "Disconnected"
    /\ v_pair_log_cooldown # EmptyDict

\* C33: every row the sink holds has a favorite flag equal to the present
\* membership of its pair in the favorites set; and after a set_filters
\* call with favorites-only on, the sink holds exactly the cached rows that
\* pass the other filters and whose pair is a favorite now.
C33_FavoriteConsistency ==
    /\ \A i \in 1..Len(v_sink) :
          /\ "favorite" \in DOMAIN v_sink[i]
          /\ v_sink[i].favorite = (v_sink[i].pair \in v_favorites)
    /\ (/\ v_pc = "set_filters"
        /\ v_self.filters.show_favorites_only
        /\ v_last_rows # <<>>) =>
          \A i \in 1..Len(v_last_rows) :
              InSeq(v_last_rows[i], v_sink)
                <=> /\ InSeq(v_last_rows[i],
                             PreFavorites(v_self, v_last_rows,
                                          v_last_status_snapshot))
                    /\ v_last_rows[i].pair \in v_favorites

\* the statuses the clients of a mode report
StatusesOfMode(mode) ==
    IF mode = "Simulator" THEN LiveStatuses
    ELSE {[name \in Exchanges |-> RealClientStub(name, Epoch).status]}

\* C35: in every update event, of a tick or of a republish, every row the
\* sink holds has the data source the event's health payload names as the
\* active mode, and the event's status snapshot is one the clients of that
\* mode report.
C35_ModeConsistency ==
    v_updated # <<>> =>
        /\ \A i \in 1..Len(v_sink) :
              v_sink[i].data_source = v_updated[1].provider_mode
        /\ v_updated[1].statuses \in StatusesOfMode(v_updated[1].provider_mode)

\* C37: a set_filters call logs no SIGNAL event; when its data source is
\* the provider's mode it leaves the cooldown map, the unfiltered row
\* cache, the cached status snapshot and the provider's mode (with it the
\* provider's pair list) unchanged and logs no 'Provider mode' event; a
\* SIGNAL event is in the log of a tick only.
C37_SettingsFrame ==
    /\ [][LiveSetFiltersStep =>
            /\ ~HasLevel(v_log', "SIGNAL")
            /\ v_self'.filters.data_source = v_mode =>
                  /\ UNCHANGED <<v_pair_log_cooldown, v_last_rows,
                                 v_last_status_snapshot, v_mode>>
                  /\ v_log' = <<>>]_vars
    /\ [](HasLevel(v_log, "SIGNAL") => v_pc = "refresh")

C37_Witness ==
    /\ v_pc = "set_filters"
    /\ v_mode = "Simulator"
    /\ v_self.filters.min_volume = 0
    /\ v_updated # <<>>
    /\ Len(v_sink) = 2
    /\ v_last_rows # <<>>
    /\ v_pair_log_cooldown # EmptyDict

(***************************************************************************)
(* Properties of pair generation (SpecGen).                                *)
(***************************************************************************)
\* C2: under fair sampling the loop of _generate_pairs terminates: the
\* collection, which holds no pair twice, reaches the size picked from
\* 220..380 and is returned, so constructing the simulator terminates.
C2_GenerationTerminates == <>GenReturned

====
